---- MODULE Spec2Model ----
(***************************************************************************)
(* Webhook dispatch of notion-server: an incoming Notion webhook event is  *)
(* checked by handleIntegrationWebhook, matched against the processor      *)
(* registry by getProcessorsToExecute and fanned out to the matched        *)
(* executors by handleWebhookPayload.                                      *)
(*                                                                         *)
(* Spec and SpecShipped are the handlers; SpecNotionUtils calls the        *)
(* predicate utilities on their own, SpecExecutor is one run of            *)
(* vancouverHouse2Executor, SpecClient the calls of getNotionClient.       *)
(*                                                                         *)
(* JavaScript values are encoded as follows.  An optional value (a field   *)
(* that may be undefined) is a sequence of length 0 or 1: None or          *)
(* Some(v).  A JavaScript boolean result that may also be a thrown         *)
(* TypeError is one of the strings "true", "false", "TypeError".  An event *)
(* type such as "page.created" is the sequence of its dot-separated        *)
(* segments, <<"page", "created">>.  A Notion id is the sequence of its    *)
(* characters.                                                             *)
(***************************************************************************)
EXTENDS Integers, Sequences, FiniteSets, TLC

VARIABLES
    caller,          \* who calls handleWebhookPayload: "direct" (a test, a script) or "http"
    req,             \* the HTTP request (method, signature header, body)
    webhookSecret,   \* NOTION_WEBHOOK_SECRET as passed to handleIntegrationWebhook
    allProcessors,   \* the registry: a sequence of processor names
    payload,         \* the argument of handleWebhookPayload
    pc,              \* position of the handler
    idx,             \* index of the registry entry the filter callback is at
    fstage,          \* position inside the filter callback
    processorsToExecute, \* result of getProcessorsToExecute, in registry order
    launched,        \* how many map callbacks have run (executors started)
    outcome,         \* per started executor: how it will settle
    executionResults,\* per settled wrapper promise: its value's success field
    settleOrder,     \* the processors in the order their wrapper promises settled
    isEnabledCalls,  \* spy: calls of each processor's isEnabled function
    shouldExecuteCalls, \* spy: calls of each processor's shouldExecute function
    executorCalls,   \* spy: calls of each processor's executor
    summary,         \* the object handleWebhookPayload returned, if any
    thrown,          \* the error handleWebhookPayload rejected with, if any
    response,        \* the HTTP response, if any
    input,           \* arguments of a utility or executor called on its own
    output,          \* what a utility call gave: the function, whether it threw, its value
    epc,             \* position of vancouverHouse2Executor
    page,            \* the page fetchPage gave, if any
    research,        \* how the two Gemini research promises settled
    failed,          \* the steps of the executor that failed
    executorResult,  \* what vancouverHouse2Executor returned, if it has
    apiKey,          \* Bun.env.NOTION_API_KEY ("" when unset)
    notionClient,    \* the module-level client of utilities/notionClient, if any
    constructed,     \* how many times new Client(...) has run
    clientReturns,   \* the getNotionClient calls so far: caller, value, whether the key was set
    bodyReads,       \* the body reads of the request so far: of a clone or of the original
    logger,          \* a ScopedLogger: its _ended flag and the records it has emitted
    callerResumed,   \* whether processWebhookInBackground has returned to its caller
    task             \* the promise of the callback given to queueMicrotask

vars == <<caller, req, webhookSecret, allProcessors, payload, pc, idx, fstage,
          processorsToExecute, launched, outcome, executionResults, settleOrder,
          isEnabledCalls, shouldExecuteCalls, executorCalls, summary, thrown,
          response, input, output, epc, page, research, failed, executorResult,
          apiKey, notionClient, constructed, clientReturns, bodyReads, logger,
          callerResumed, task>>

(***************************************************************************)
(* Bounds                                                                  *)
(***************************************************************************)
\* Longest registry explored (the shipped registry has 3 entries).
MaxRegistry == 3
\* Longest authors list handed to a predicate utility.
MaxAuthors == 2
\* Longest id handed to normalizeNotionId in the exhaustive exploration.
MaxIdLen == 3
\* Most getNotionClient calls explored in one run of the server.
MaxClientCalls == 4
\* Most calls (the constructor included) made on one ScopedLogger.
MaxLoggerCalls == 4
\* Most properties a page handed to extractAddress holds.
MaxProperties == 3

(***************************************************************************)
(* Optional values                                                         *)
(***************************************************************************)
None == <<>>
Some(v) == <<v>>
IsSome(m) == m # <<>>
Get(m) == m[1]

Range(s) == {s[i] : i \in 1..Len(s)}

(***************************************************************************)
(* Notion ids                                                              *)
(***************************************************************************)
\* A normalisation that leaves the case alone.
KeepCase(c) == c

\* String.prototype.toLowerCase on one character of an id.
ToLowerCase(c) ==
    CASE c = "A" -> "a" [] c = "B" -> "b" [] c = "C" -> "c"
      [] c = "D" -> "d" [] c = "E" -> "e" [] c = "F" -> "f"
      [] OTHER -> c

RECURSIVE RemoveFirstDash(_)
\* id.replace("-", ""): without the g flag only the first dash goes.
RemoveFirstDash(id) ==
    IF id = <<>> THEN <<>>
    ELSE IF Head(id) = "-" THEN Tail(id)
         ELSE <<Head(id)>> \o RemoveFirstDash(Tail(id))

\* id.replace(/-/g, ""): every dash goes.
RemoveDashes(id) == SelectSeq(id, LAMBDA c : c # "-")

\* normalizeNotionId of a defined string.
NormalizeNotionId(id) ==
    LET stripped == RemoveDashes(id)
    IN  [i \in 1..Len(stripped) |-> ToLowerCase(stripped[i])]

DATABASE_GLENS_PLAYGROUND ==
    <<"2","f","4","d","c","a","a","d","a","6","d","6","8","0","3","e",
      "a","6","e","e","e","2","a","5","8","3","8","f","a","3","f","5">>

DATABASE_VANCOUVER_HOUSE_2 ==
    <<"2","e","8","d","c","a","a","d","a","6","d","6","8","0","4","1",
      "a","2","f","f","c","a","e","1","d","e","5","c","f","f","1","6">>

DATABASE_SMALL_BUSINESS_ACQUISITION ==
    <<"2","e","2","d","c","a","a","d","a","6","d","6","8","0","6","b",
      "b","9","a","0","e","8","9","7","a","d","a","0","5","6","4","3">>

(***************************************************************************)
(* Envelopes                                                               *)
(***************************************************************************)
\* Ids as Notion sends them: dashed UUIDs, here also upper-cased.
GlensIdDashedUpper ==
    <<"2","F","4","D","C","A","A","D","-","A","6","D","6","-","8","0","3","E","-",
      "A","6","E","E","-","E","2","A","5","8","3","8","F","A","3","F","5">>
Vh2IdDashed ==
    <<"2","e","8","d","c","a","a","d","-","a","6","d","6","-","8","0","4","1","-",
      "a","2","f","f","-","c","a","e","1","d","e","5","c","f","f","1","6">>
SbaIdPlain == DATABASE_SMALL_BUSINESS_ACQUISITION
OtherId == <<"t","e","s","t","-","d","b">>

EventTypes == { <<"page", "created">>, <<"page", "deleted">>, <<"database", "created">> }
EntityTypes == {"page", "database"}
\* An author is given by its type ("untyped": an author object without a
\* type, "null": a JSON null in the list).  Author lists of the dispatch: a
\* person, a bot, and a list holding a JSON null.
AuthorLists == { <<"person">>, <<"bot">>, <<"null">> }
Parents ==
    { [type |-> "database",    id |-> Some(GlensIdDashedUpper)],
      [type |-> "data_source", id |-> Some(Vh2IdDashed)],
      [type |-> "database",    id |-> Some(SbaIdPlain)],
      [type |-> "database",    id |-> Some(OtherId)],
      [type |-> "database",    id |-> None] }

Maybe(S) == {None} \cup {Some(x) : x \in S}

\* Parsed JSON objects handed to the dispatcher: every envelope field may be
\* missing, because nothing validates the shape of the parsed body.
ObjectPayloads ==
    [ kind : {"object"}, truthy : {TRUE},
      type : Maybe(EventTypes),
      entity : Maybe([type : EntityTypes]),
      authors : Maybe(AuthorLists),
      data : {None} \cup { Some([parent |-> Some(x)]) : x \in Parents },
      verification_token : {None}, challenge : {None}, token : {None},
      secret : {None} ]

NoFields(k, t) ==
    [ kind |-> k, truthy |-> t, type |-> None, entity |-> None,
      authors |-> None, data |-> None, verification_token |-> None,
      challenge |-> None, token |-> None, secret |-> None ]

\* Values that are not envelopes: null, undefined, primitives, and an array
\* (typeof [] is "object").
NonObjectPayloads ==
    { NoFields("null", FALSE), NoFields("undefined", FALSE),
      NoFields("string", TRUE), NoFields("string", FALSE),
      NoFields("number", TRUE), NoFields("number", FALSE),
      NoFields("boolean", TRUE) }
ArrayPayload == NoFields("array", TRUE)

\* typeof payload
TypeOf(p) ==
    CASE p.kind \in {"object", "array", "null"} -> "object"
      [] OTHER -> p.kind

\* The guard with the falsy test left out: null is typeof "object".
IsInvalidPayloadTypeofOnly(p) == TypeOf(p) # "object"

\* The guard of handleWebhookPayload: !payload || typeof payload !== "object"
IsInvalidPayload(p) == (~p.truthy) \/ TypeOf(p) # "object"

(***************************************************************************)
(* Predicate utilities (utilities/notionUtils)                             *)
(***************************************************************************)
\* a && b over results that may be a thrown TypeError: b is not evaluated
\* unless a is true.
JsAnd(a, b) == IF a = "true" THEN b ELSE a

\* payload.type.startsWith("page."): a TypeError when payload.type is undefined.
StartsWithPagePrefix(p) ==
    IF ~IsSome(p.type) THEN "TypeError"
    ELSE IF Len(Get(p.type)) >= 2 /\ Get(p.type)[1] = "page" THEN "true" ELSE "false"

\* isEventType: expectedTypes.includes(payload.type)
IsEventType(p, expectedTypes) ==
    IF IsSome(p.type) /\ Get(p.type) \in expectedTypes THEN "true" ELSE "false"

\* A page test that looks at the event type only.
IsPageEventPrefixOnly(p) == StartsWithPagePrefix(p)

\* isPageEvent
IsPageEvent(p) ==
    LET prefix == StartsWithPagePrefix(p)
    IN  IF prefix # "true" THEN prefix
        ELSE IF IsSome(p.entity) /\ Get(p.entity).type = "page" THEN "true" ELSE "false"

\* A test of the first author only: authors[0].type === "person".
SomeIsPersonFirstOnly(authors) ==
    IF authors = <<>> THEN "false"
    ELSE IF Head(authors) = "null" THEN "TypeError"
    ELSE IF Head(authors) = "person" THEN "true"
    ELSE "false"

RECURSIVE SomeIsPerson(_)
\* authors.some((author) => author.type === "person"), left to right; reading
\* .type of a null element throws.
SomeIsPerson(authors) ==
    IF authors = <<>> THEN "false"
    ELSE IF Head(authors) = "null" THEN "TypeError"
    ELSE IF Head(authors) = "person" THEN "true"
    ELSE SomeIsPerson(Tail(authors))

\* isUserTriggeredEvent
IsUserTriggeredEvent(p) ==
    IF ~IsSome(p.authors) \/ Len(Get(p.authors)) = 0 THEN "false"
    ELSE SomeIsPerson(Get(p.authors))

\* payload.data?.parent: undefined when data or its parent is missing
ParentOf(p) == IF IsSome(p.data) THEN Get(p.data).parent ELSE None

\* isPageEventFromDatabase
IsPageEventFromDatabase(p, targetDatabaseId) ==
    LET pageEvent == IsPageEvent(p)
        parent == ParentOf(p)
    IN  IF pageEvent # "true" THEN pageEvent
        ELSE IF ~IsSome(parent) THEN "false"
        ELSE IF Get(parent).type \notin {"database", "data_source"} THEN "false"
        ELSE IF ~IsSome(Get(parent).id) THEN "TypeError"  \* undefined.replace
        ELSE IF NormalizeNotionId(Get(Get(parent).id)) = NormalizeNotionId(targetDatabaseId)
             THEN "true" ELSE "false"

(***************************************************************************)
(* Processors                                                              *)
(***************************************************************************)
\* isEnabled and shouldExecute are a boolean or a function of the payload.
Constant(b) == [isFunction |-> FALSE, value |-> IF b THEN "true" ELSE "false"]
Function(f) == [isFunction |-> TRUE, value |-> f]

\* The three shipped processors, and two that use the other arms of the
\* boolean-or-function fields of IWebhookProcessor.
ProcessorNames == {"glensPlayground", "vancouverHouse2", "smallBusinessAcquisition",
                   "disabledProcessor", "gatedProcessor"}

Processor(name) ==
    CASE name = "glensPlayground" ->
           [isEnabled |-> Constant(TRUE), shouldExecute |-> Function("glensPlayground")]
      [] name = "vancouverHouse2" ->
           [isEnabled |-> Constant(TRUE), shouldExecute |-> Function("vancouverHouse2")]
      [] name = "smallBusinessAcquisition" ->
           [isEnabled |-> Constant(TRUE), shouldExecute |-> Function("smallBusinessAcquisition")]
      [] name = "disabledProcessor" ->
           [isEnabled |-> Constant(FALSE), shouldExecute |-> Function("glensPlayground")]
      [] name = "gatedProcessor" ->
           [isEnabled |-> Function("isUserTriggeredEvent"), shouldExecute |-> Constant(TRUE)]

\* The bodies of the predicate functions.
Call(f, p) ==
    CASE f = "glensPlayground" -> IsPageEventFromDatabase(p, DATABASE_GLENS_PLAYGROUND)
      [] f = "vancouverHouse2" ->
           JsAnd(IsUserTriggeredEvent(p),
                 IsPageEventFromDatabase(p, DATABASE_VANCOUVER_HOUSE_2))
      [] f = "smallBusinessAcquisition" ->
           JsAnd(IsEventType(p, { <<"page", "created">> }),
                 IsPageEventFromDatabase(p, DATABASE_SMALL_BUSINESS_ACQUISITION))
      [] f = "isUserTriggeredEvent" -> IsUserTriggeredEvent(p)

\* typeof field === "function" ? field(payload) : field
Evaluate(field, p) == IF field.isFunction THEN Call(field.value, p) ELSE field.value

\* The shipped registry (processors/index.ts).
ShippedRegistry == <<"glensPlayground", "vancouverHouse2", "smallBusinessAcquisition">>

\* Registries explored: every order of every choice of up to MaxRegistry
\* distinct processors.
Registries ==
    UNION { { s \in [1..n -> ProcessorNames] : \A i, j \in 1..n : i # j => s[i] # s[j] }
            : n \in 0..MaxRegistry }

(***************************************************************************)
(* HTTP requests                                                           *)
(***************************************************************************)
\* A string is the sequence of its pieces; a verification token is
\* <<"secret_", rest>>.
StartsWithSecretPrefix(t) == Len(t) >= 1 /\ t[1] = "secret_"

\* What a field of a JSON body may hold: a string, or a value that is no
\* string (a number other than 0, an object).  Only the empty string is falsy.
Str(t) == [isString |-> TRUE, text |-> t]
NotAString == [isString |-> FALSE, text |-> <<>>]
Truthy(v) == ~v.isString \/ v.text # <<>>
TokenValues == { Str(<<"secret_", "abc">>), Str(<<"secret_", "xyz">>), Str(<<"other">>),
                 Str(<<>>), NotAString }

\* The fields handleVerificationRequest looks a token up in, in its order.
TokenFields == <<"verification_token", "challenge", "token", "secret">>

\* JSON bodies Notion or anyone else may post: an event of the Glen's
\* Playground database, an object without a type, a verification request, an
\* object whose token is not a secret, and the JSON text null.
GlensEvent ==
    [ kind |-> "object", truthy |-> TRUE,
      type |-> Some(<<"page", "created">>),
      entity |-> Some([type |-> "page"]),
      authors |-> Some(<<"person">>),
      data |-> Some([parent |-> Some([type |-> "database", id |-> Some(GlensIdDashedUpper)])]),
      verification_token |-> None, challenge |-> None, token |-> None,
      secret |-> None ]
TokenObject(t) == [NoFields("object", TRUE) EXCEPT !.verification_token = Some(Str(t))]
JsonValues ==
    { GlensEvent, NoFields("object", TRUE), NoFields("null", FALSE),
      TokenObject(<<"secret_", "abc">>), TokenObject(<<"other">>) }

\* A body is JSON text (given by the value it parses to) or other text (given
\* by whether it starts with "secret_").
Bodies ==
    [isJson : {TRUE}, value : JsonValues, text : {<<>>}]
      \cup [isJson : {FALSE}, value : {NoFields("undefined", FALSE)},
            text : { <<"secret_", "abc">>, <<"garbage">> }]

\* HMAC-SHA256 of a body under a key, as the pair it is a function of.
Hmac(key, body) == [key |-> key, body |-> body]

Secrets == {"", "whsec"}
AttackerKey == "guess"
TamperedBody == [isJson |-> TRUE, value |-> NoFields("object", TRUE), text |-> <<"tampered">>]

\* X-Notion-Signature: absent, or the text "sha256=" (or nothing) followed by
\* a hash (or nothing); without prefix and hash the header is the empty string.
SignatureHeaders(body) ==
    Maybe([ prefixed : BOOLEAN,
            hash : Maybe({ Hmac("whsec", body), Hmac(AttackerKey, body),
                           Hmac("whsec", TamperedBody) }) ])

Requests ==
    UNION { [method : {"POST", "GET"}, signature : SignatureHeaders(b), body : {b}] : b \in Bodies }

NoBody == [isJson |-> FALSE, value |-> NoFields("undefined", FALSE), text |-> <<>>]
NoRequest == [method |-> "none", signature |-> None, body |-> NoBody]

\* A comparison that accepts any hash once a secret is configured.
ValidateWebhookSignatureAcceptsAny(body, signature, secret) == secret # ""

\* validateWebhookSignature: the provided hash (prefix stripped) must equal the
\* HMAC of the body under the secret.
ValidateWebhookSignature(body, signature, secret) ==
    IF secret = "" THEN FALSE
    ELSE signature.hash = Some(Hmac(secret, body))

\* !signature: no header, or a header that is the empty string.
NoSignature(request) ==
    \/ ~IsSome(request.signature)
    \/ ~Get(request.signature).prefixed /\ ~IsSome(Get(request.signature).hash)

\* What validateWebhookRequest returns: { valid: false, response } with the
\* response's status and text, or { valid: true, payload }; read tells whether
\* request.text() was called.
Invalid(status, message, read) ==
    [valid |-> FALSE, status |-> status, message |-> message, read |-> read,
     payload |-> NoFields("undefined", FALSE)]

\* A validateWebhookRequest that looks at the secret before the header.
ValidateWebhookRequestSecretFirst(request, secret) ==
    IF request.method # "POST" THEN Invalid(405, "Method not allowed", FALSE)
    ELSE IF secret = "" THEN Invalid(500, "Webhook secret not configured", FALSE)
    ELSE IF NoSignature(request)
         THEN Invalid(401, "Missing X-Notion-Signature header", FALSE)
    ELSE IF ~ValidateWebhookSignature(request.body, Get(request.signature), secret)
         THEN Invalid(401, "Invalid webhook signature", TRUE)
    ELSE IF ~request.body.isJson THEN Invalid(400, "Invalid JSON payload", TRUE)
    ELSE [valid |-> TRUE, status |-> 200, message |-> "", read |-> TRUE,
          payload |-> request.body.value]

\* validateWebhookRequest: the response of the first failing check, or the
\* parsed body.
ValidateWebhookRequest(request, secret) ==
    IF request.method # "POST" THEN Invalid(405, "Method not allowed", FALSE)
    ELSE IF NoSignature(request)
         THEN Invalid(401, "Missing X-Notion-Signature header", FALSE)
    ELSE IF secret = "" THEN Invalid(500, "Webhook secret not configured", FALSE)
    ELSE IF ~ValidateWebhookSignature(request.body, Get(request.signature), secret)
         THEN Invalid(401, "Invalid webhook signature", TRUE)
    ELSE IF ~request.body.isJson THEN Invalid(400, "Invalid JSON payload", TRUE)
    ELSE [valid |-> TRUE, status |-> 200, message |-> "", read |-> TRUE,
          payload |-> request.body.value]

\* A lookup that takes the first field that is a secret, whatever stands in
\* the fields before it.
FoundTokenFirstSecret(p) ==
    LET secrets == SelectSeq(TokenFields, LAMBDA f :
                       IsSome(p[f]) /\ Get(p[f]).isString
                                    /\ StartsWithSecretPrefix(Get(p[f]).text))
    IN  IF secrets = <<>> THEN None ELSE p[Head(secrets)]

\* payload?.verification_token || payload?.challenge || payload?.token ||
\* payload?.secret: the first truthy one, else the last.
FoundToken(p) ==
    LET truthy == SelectSeq(TokenFields, LAMBDA f : IsSome(p[f]) /\ Truthy(Get(p[f])))
    IN  IF truthy = <<>> THEN p.secret ELSE p[Head(truthy)]

\* The text handleVerificationRequest echoes for a body, if any: a string
\* token of a JSON body, or the whole of a body that is not JSON, starting
\* with "secret_".
VerificationToken(body) ==
    IF ~body.isJson
    THEN IF StartsWithSecretPrefix(body.text) THEN Some(body.text) ELSE None
    ELSE LET token == FoundToken(body.value)
         IN  IF /\ IsSome(token)
                /\ Truthy(Get(token))
                /\ Get(token).isString
                /\ StartsWithSecretPrefix(Get(token).text)
             THEN Some(Get(token).text)
             ELSE None

\* The original request's body has been consumed.
BodyUsed(reads) == \E i \in 1..Len(reads) : reads[i] = "original"

\* request.text(): the body of the request itself is read.
ReadRequestBody(reads) == Append(reads, "original")

\* A body check that reads the request itself instead of a clone.
ReadWithoutClone(reads) == Append(reads, "original")

\* req.clone().text(): the clone's body is read, the original's is not.
ReadCloneBody(reads) == Append(reads, "clone")

\* handleVerificationRequest: the echoed token, or null; cloning a request
\* whose body is used throws, which the function catches to return null.
HandleVerificationRequest(request, reads) ==
    IF BodyUsed(reads) THEN [token |-> None, reads |-> reads]
    ELSE [token |-> VerificationToken(request.body), reads |-> ReadCloneBody(reads)]

(***************************************************************************)
(* State after construction                                                *)
(***************************************************************************)
Zero == [n \in ProcessorNames |-> 0]
NotStarted == [n \in ProcessorNames |-> "none"]

\* What handleWebhookPayload has not yet touched.
FreshDispatch ==
    /\ idx = 1
    /\ fstage = "isEnabled"
    /\ processorsToExecute = <<>>
    /\ launched = 0
    /\ outcome = NotStarted
    /\ executionResults = NotStarted
    /\ settleOrder = <<>>
    /\ isEnabledCalls = Zero
    /\ shouldExecuteCalls = Zero
    /\ executorCalls = Zero
    /\ summary = None
    /\ thrown = None
    /\ response = None
    /\ bodyReads = <<>>

\* No utility is being called on its own.
NoInput == [payload |-> NoFields("undefined", FALSE), targetDatabaseId |-> <<>>]
UtilIdle ==
    /\ input = NoInput
    /\ output = None

\* vancouverHouse2Executor has not been called: nothing fetched, no research
\* started, nothing failed.
NoResearch == [property |-> "none", surroundings |-> "none"]
ExecutorFresh ==
    /\ page = None
    /\ research = NoResearch
    /\ failed = {}
    /\ executorResult = None
ExecutorIdle ==
    /\ epc = "idle"
    /\ ExecutorFresh

\* utilities/notionClient as loaded: let notionClient = null, nothing called.
ClientLoaded ==
    /\ notionClient = None
    /\ constructed = 0
    /\ clientReturns = <<>>
ClientIdle ==
    /\ apiKey = ""
    /\ ClientLoaded

\* processWebhookInBackground has not been called and no logger is observed.
BackgroundIdle ==
    /\ logger = None
    /\ callerResumed = FALSE
    /\ task = "none"

\* handleWebhookPayload called directly (as the tests do) with any value,
\* against any registry.
InitDirect(registries) ==
    /\ caller = "direct"
    /\ req = NoRequest
    /\ webhookSecret = ""
    /\ allProcessors \in registries
    /\ payload \in ObjectPayloads \cup NonObjectPayloads \cup {ArrayPayload}
    /\ pc = "handleWebhookPayload"
    /\ FreshDispatch
    /\ UtilIdle
    /\ ExecutorIdle
    /\ ClientIdle
    /\ BackgroundIdle

\* A request arriving at /webhook/integration of the server as shipped.
InitHttpOf(requests) ==
    /\ caller = "http"
    /\ req \in requests
    /\ webhookSecret \in Secrets
    /\ allProcessors = ShippedRegistry
    /\ payload = NoFields("undefined", FALSE)
    /\ pc = "handleIntegrationWebhook"
    /\ FreshDispatch
    /\ UtilIdle
    /\ ExecutorIdle
    /\ ClientIdle
    /\ BackgroundIdle

InitHttp == InitHttpOf(Requests)

Init == InitDirect(Registries) \/ InitHttp

(***************************************************************************)
(* handleIntegrationWebhook                                                *)
(***************************************************************************)
dispatchVars == <<idx, fstage, processorsToExecute, launched, outcome, executionResults,
                  settleOrder, isEnabledCalls, shouldExecuteCalls, executorCalls>>
utilVars == <<input, output>>
executorVars == <<epc, page, research, failed, executorResult>>
clientVars == <<apiKey, notionClient, constructed, clientReturns>>
backgroundVars == <<logger, callerResumed, task>>
\* What handleIntegrationWebhook does not write.
callVars == <<caller, req, webhookSecret, allProcessors, utilVars, executorVars, clientVars,
              backgroundVars>>
\* What neither the part of handleIntegrationWebhook around the dispatch nor
\* handleWebhookPayload writes.
envVars == <<callVars, bodyReads>>

\* new Response(body, { status, headers }): a body is text or, stringified,
\* a JSON object.
Text(t) == [text |-> t, json |-> None]
Json(o) == [text |-> <<>>, json |-> Some(o)]
Respond(status, contentType, body) ==
    Some([status |-> status, contentType |-> contentType, body |-> body])
\* The Content-Type a Response with a string body gets when none is given.
DefaultContentType == "text/plain;charset=UTF-8"

\* if (req.method !== "POST") return 405
CheckMethod ==
    /\ pc = "handleIntegrationWebhook"
    /\ IF req.method # "POST"
       THEN /\ response' = Respond(405, DefaultContentType, Text(<<"Method not allowed">>))
            /\ pc' = "responded"
       ELSE /\ response' = response
            /\ pc' = "verification"
    /\ UNCHANGED <<envVars, payload, dispatchVars, summary, thrown>>

\* const verificationResponse = await handleVerificationRequest(req)
CheckVerification ==
    /\ pc = "verification"
    /\ LET verification == HandleVerificationRequest(req, bodyReads)
       IN  /\ bodyReads' = verification.reads
           /\ IF IsSome(verification.token)
              THEN /\ response' = Respond(200, "text/plain", Text(Get(verification.token)))
                   /\ pc' = "responded"
              ELSE /\ response' = response
                   /\ pc' = "validation"
    /\ UNCHANGED <<callVars, payload, dispatchVars, summary, thrown>>

\* const validation = await validateWebhookRequest(req, webhookSecret);
\* request.text() of a request whose body is used rejects, and nothing
\* catches it.
Validate ==
    /\ pc = "validation"
    /\ LET validation == ValidateWebhookRequest(req, webhookSecret)
       IN  IF validation.read /\ BodyUsed(bodyReads)
           THEN /\ pc' = "rejected"
                /\ UNCHANGED <<response, payload, bodyReads>>
           ELSE /\ bodyReads' = IF validation.read THEN ReadRequestBody(bodyReads)
                                                   ELSE bodyReads
                /\ IF ~validation.valid
                   THEN /\ response' = Respond(validation.status, DefaultContentType,
                                               Text(<<validation.message>>))
                        /\ pc' = "responded"
                        /\ payload' = payload
                   ELSE /\ response' = response
                        /\ payload' = validation.payload       \* JSON.parse(body)
                        /\ pc' = "handleWebhookPayload"
    /\ UNCHANGED <<callVars, dispatchVars, summary, thrown>>

\* The response to a summary with a field dropped: success alone.
DispatchResponseWithoutSummary(result, error) ==
    IF IsSome(result)
    THEN Respond(200, "application/json",
                 Json([success |-> TRUE, result |-> None, error |-> None]))
    ELSE Respond(500, "application/json",
                 Json([success |-> FALSE, result |-> None, error |-> error]))

\* try { result = await handleWebhookPayload(payload); 200 with { success:
\* true, ...result } } catch { 500 with { success: false, error } }
DispatchResponse(result, error) ==
    IF IsSome(result)
    THEN Respond(200, "application/json",
                 Json([success |-> TRUE, result |-> result, error |-> None]))
    ELSE Respond(500, "application/json",
                 Json([success |-> FALSE, result |-> None, error |-> error]))

RespondToDispatch ==
    /\ caller = "http"
    /\ pc \in {"returned", "thrown"}
    /\ response' = DispatchResponse(summary, thrown)
    /\ pc' = "responded"
    /\ UNCHANGED <<envVars, payload, dispatchVars, summary, thrown>>

(***************************************************************************)
(* handleWebhookPayload and getProcessorsToExecute                         *)
(***************************************************************************)
\* if (!payload || typeof payload !== "object") throw ...
CheckPayload ==
    /\ pc = "handleWebhookPayload"
    /\ IF IsInvalidPayload(payload)
       THEN /\ thrown' = Some("Invalid payload: expected an object")
            /\ pc' = "thrown"
       ELSE /\ thrown' = thrown
            /\ pc' = "filter"
    /\ UNCHANGED <<envVars, payload, dispatchVars, summary, response>>

Bump(calls, name, field) ==
    IF field.isFunction THEN [calls EXCEPT ![name] = @ + 1] ELSE calls

\* What the filter callback does once isEnabled gave `enabled`: with a falsy
\* value it returns false at once.
AfterIsEnabledEvaluatesAnyway(enabled) ==
    IF enabled = "TypeError" THEN "throw" ELSE "shouldExecute"

\* A filter that takes a throwing isEnabled for a false one.
AfterIsEnabledFailClosed(enabled) ==
    IF enabled = "true" THEN "shouldExecute" ELSE "reject"

AfterIsEnabled(enabled) ==
    CASE enabled = "TypeError" -> "throw"
      [] enabled = "false" -> "reject"
      [] OTHER -> "shouldExecute"

\* Where the filter goes after rejecting an entry: a loop that ends at the
\* first rejected processor.
IndexAfterRejectStops(i) == Len(allProcessors) + 1

\* A filter that evaluates a rejected entry again.
IndexAfterRejectRetries(i) == i

\* Array.prototype.filter goes on to the next entry.
IndexAfterReject(i) == i + 1

\* The first half of the filter callback: evaluate isEnabled.
EvaluateIsEnabled ==
    /\ pc = "filter"
    /\ fstage = "isEnabled"
    /\ idx <= Len(allProcessors)
    /\ LET name == allProcessors[idx]
           field == Processor(name).isEnabled
           next == AfterIsEnabled(Evaluate(field, payload))
       IN  /\ isEnabledCalls' = Bump(isEnabledCalls, name, field)
           /\ IF next = "throw"
              THEN /\ thrown' = Some("TypeError")
                   /\ pc' = "thrown"
                   /\ UNCHANGED <<idx, fstage>>
              ELSE IF next = "reject"
              THEN /\ idx' = IndexAfterReject(idx)
                   /\ UNCHANGED <<thrown, pc, fstage>>
              ELSE /\ fstage' = "shouldExecute"
                   /\ UNCHANGED <<thrown, pc, idx>>
    /\ UNCHANGED <<envVars, payload, processorsToExecute, launched, outcome,
                   executionResults, settleOrder, shouldExecuteCalls, executorCalls,
                   summary, response>>

\* The second half of the filter callback: evaluate shouldExecute.
EvaluateShouldExecute ==
    /\ pc = "filter"
    /\ fstage = "shouldExecute"
    /\ LET name == allProcessors[idx]
           field == Processor(name).shouldExecute
           shouldExecute == Evaluate(field, payload)
       IN  /\ shouldExecuteCalls' = Bump(shouldExecuteCalls, name, field)
           /\ IF shouldExecute = "TypeError"
              THEN /\ thrown' = Some("TypeError")
                   /\ pc' = "thrown"
                   /\ UNCHANGED <<idx, fstage, processorsToExecute>>
              ELSE IF shouldExecute = "false"
              THEN /\ idx' = IndexAfterReject(idx)
                   /\ fstage' = "isEnabled"
                   /\ UNCHANGED <<thrown, pc, processorsToExecute>>
              ELSE /\ processorsToExecute' = Append(processorsToExecute, name)
                   /\ idx' = idx + 1
                   /\ fstage' = "isEnabled"
                   /\ UNCHANGED <<thrown, pc>>
    /\ UNCHANGED <<envVars, payload, launched, outcome, executionResults, settleOrder,
                   isEnabledCalls, executorCalls, summary, response>>

\* getProcessorsToExecute returns the filtered array.
FilterDone ==
    /\ pc = "filter"
    /\ fstage = "isEnabled"
    /\ idx > Len(allProcessors)
    /\ pc' = "map"
    /\ UNCHANGED <<envVars, payload, dispatchVars, summary, thrown, response>>

\* How an executor may settle: resolve true or false, throw synchronously, or
\* reject.
ExecutorOutcomes == {"true", "false", "throw", "reject"}

\* A map that gives up once an executor it started is going to fail.
MapContinuesUntilFailure ==
    /\ launched < Len(processorsToExecute)
    /\ \A k \in 1..launched : outcome[processorsToExecute[k]] = "true"

\* A map that starts an executor only while none it started is pending.
MapContinuesOneAtATime ==
    /\ launched < Len(processorsToExecute)
    /\ \A k \in 1..launched : executionResults[processorsToExecute[k]] # "pending"

\* processorsToExecute.map visits every entry.
MapContinues == launched < Len(processorsToExecute)

\* One callback of processorsToExecute.map: the async wrapper runs up to its
\* await, which calls the executor.
StartExecutor ==
    /\ pc = "map"
    /\ MapContinues
    /\ LET name == processorsToExecute[launched + 1]
       IN  /\ \E o \in ExecutorOutcomes : outcome' = [outcome EXCEPT ![name] = o]
           /\ executorCalls' = [executorCalls EXCEPT ![name] = @ + 1]
           /\ executionResults' = [executionResults EXCEPT ![name] = "pending"]
    /\ launched' = launched + 1
    /\ UNCHANGED <<envVars, payload, pc, idx, fstage, processorsToExecute, settleOrder,
                   isEnabledCalls, shouldExecuteCalls, summary, thrown, response>>

\* The map is over: await Promise.allSettled(...)
AwaitAllSettled ==
    /\ pc = "map"
    /\ ~MapContinues
    /\ pc' = "await"
    /\ UNCHANGED <<envVars, payload, dispatchVars, summary, thrown, response>>

\* A catch arm that reports success.
WrapperValueCatchSucceeds(o) == IF o \in {"throw", "reject"} THEN "true" ELSE o

\* The value the wrapper promise fulfils with: { success } from the try arm,
\* { success: false } from the catch arm.
WrapperValue(o) == IF o \in {"throw", "reject"} THEN "false" ELSE o

\* A started executor settles, in any order, and its wrapper promise fulfils.
Settle(name) ==
    /\ pc = "await"
    /\ executionResults[name] = "pending"
    /\ executionResults' = [executionResults EXCEPT ![name] = WrapperValue(outcome[name])]
    /\ settleOrder' = Append(settleOrder, name)
    /\ UNCHANGED <<envVars, payload, pc, idx, fstage, processorsToExecute, launched,
                   outcome, isEnabledCalls, shouldExecuteCalls, executorCalls,
                   summary, thrown, response>>

\* A count that looks at the first promise to settle only.
SuccessfulExecutionsFirstSettled ==
    IF settleOrder # <<>> /\ executionResults[settleOrder[1]] = "true" THEN 1 ELSE 0

\* A count of every fulfilled promise, whatever its success field.
SuccessfulExecutionsCountsFulfilled ==
    Cardinality({ k \in 1..Len(processorsToExecute) :
                    executionResults[processorsToExecute[k]] \in {"true", "false"} })

\* executionResults.filter(fulfilled && value.success === true).length
SuccessfulExecutions ==
    Cardinality({ k \in 1..Len(processorsToExecute) :
                    executionResults[processorsToExecute[k]] = "true" })

\* An object type read off the event type's prefix.
ObjectTypeFromEventType(p) == IF IsSome(p.type) THEN Some(Get(p.type)[1]) ELSE None

\* entity?.type
ObjectTypeOf(p) == IF IsSome(p.entity) THEN Some(Get(p.entity).type) ELSE None

\* A wait that ends with the first promise to settle (Promise.race).
FirstSettled ==
    \/ processorsToExecute = <<>>
    \/ \E k \in 1..Len(processorsToExecute) :
           executionResults[processorsToExecute[k]] # "pending"

\* Promise.allSettled resolves once every promise of the array has settled.
AllSettled ==
    \A k \in 1..Len(processorsToExecute) :
        executionResults[processorsToExecute[k]] # "pending"

\* allSettled has resolved: count and return the summary.
ReturnSummary ==
    /\ pc = "await"
    /\ AllSettled
    /\ summary' = Some([ eventType |-> payload.type,
                         objectType |-> ObjectTypeOf(payload),
                         processed |-> SuccessfulExecutions > 0,
                         processorsExecuted |-> SuccessfulExecutions ])
    /\ pc' = "returned"
    /\ UNCHANGED <<envVars, payload, dispatchVars, thrown, response>>

Next ==
    \/ CheckMethod
    \/ CheckVerification
    \/ Validate
    \/ RespondToDispatch
    \/ CheckPayload
    \/ EvaluateIsEnabled
    \/ EvaluateShouldExecute
    \/ FilterDone
    \/ StartExecutor
    \/ AwaitAllSettled
    \/ \E name \in ProcessorNames : Settle(name)
    \/ ReturnSummary

Spec == Init /\ [][Next]_vars

\* handleWebhookPayload called directly, with the scheduling of the runtime:
\* an async function that can go on does go on (its synchronous stretches run
\* to completion, the continuation of a resolved await is a queued
\* microtask).  Nothing is assumed of the executors: a started executor may
\* stay pending for ever.
LiveRegistries ==
    { ShippedRegistry, <<"gatedProcessor", "disabledProcessor", "glensPlayground">>, <<>> }
InitLive == InitDirect(LiveRegistries)
HandlerStep ==
    \/ CheckPayload
    \/ EvaluateIsEnabled
    \/ EvaluateShouldExecute
    \/ FilterDone
    \/ StartExecutor
    \/ AwaitAllSettled
    \/ ReturnSummary
NextLive ==
    \/ HandlerStep
    \/ \E name \in ProcessorNames : Settle(name)
SpecLive == InitLive /\ [][NextLive]_vars /\ WF_vars(HandlerStep)

\* The server as shipped: the registry of processors/index.ts only.
InitShipped == InitDirect({ShippedRegistry}) \/ InitHttp
SpecShipped == InitShipped /\ [][Next]_vars

(***************************************************************************)
(* The predicate utilities called on their own                             *)
(***************************************************************************)
\* The handlers are not running.
HandlersIdle ==
    /\ caller = "none"
    /\ req = NoRequest
    /\ webhookSecret = ""
    /\ allProcessors = <<>>
    /\ payload = NoFields("undefined", FALSE)
    /\ pc = "idle"
    /\ FreshDispatch

requestVars == <<caller, req, webhookSecret, allProcessors, payload, pc, dispatchVars,
                 summary, thrown, response, bodyReads>>
handlerVars == <<requestVars, backgroundVars>>

SeqsUpTo(S, n) == UNION { [1..k -> S] : k \in 0..n }

\* WebhookAuthor.type, and an author object that has no type.
AuthorTypes == {"person", "bot", "agent", "untyped"}

\* WebhookParent: collection parents and a page parent, with or without id.
UtilParents == [type : {"database", "data_source", "page"},
                id : Maybe({GlensIdDashedUpper, OtherId})]

\* Envelope objects with every field independently present or missing; the
\* type "page" has no dot after the prefix.
UtilEnvelopes ==
    [ kind : {"object"}, truthy : {TRUE},
      type : Maybe({ <<"page", "created">>, <<"database", "created">>, <<"page">> }),
      entity : Maybe([type : EntityTypes]),
      authors : Maybe(SeqsUpTo(AuthorTypes, MaxAuthors)),
      data : Maybe([parent : Maybe(UtilParents)]),
      verification_token : {None}, challenge : {None}, token : {None},
      secret : {None} ]

\* Every id of up to MaxIdLen characters over two letters, one of them in
\* both cases, and the dash.
IdAlphabet == {"a", "A", "b", "-"}
Ids == SeqsUpTo(IdAlphabet, MaxIdLen)

\* A page.created event of a person, of a page in the database of the id.
PageCreatedIn(id) ==
    [ kind |-> "object", truthy |-> TRUE,
      type |-> Some(<<"page", "created">>),
      entity |-> Some([type |-> "page"]),
      authors |-> Some(<<"person">>),
      data |-> Some([parent |-> Some([type |-> "database", id |-> Some(id)])]),
      verification_token |-> None, challenge |-> None, token |-> None,
      secret |-> None ]

\* extractDatabaseIdFromPayload: parent.id (which may be undefined itself)
\* under a database or data_source parent, undefined otherwise.
ExtractDatabaseIdFromPayload(p) ==
    LET parent == ParentOf(p)
    IN  IF ~IsSome(parent) THEN None
        ELSE IF Get(parent).type \in {"database", "data_source"} THEN Get(parent).id
        ELSE None

InitNotionUtils ==
    /\ HandlersIdle
    /\ ExecutorIdle
    /\ ClientIdle
    /\ BackgroundIdle
    /\ output = None
    /\ \/ input \in [payload : UtilEnvelopes,
                     targetDatabaseId : {DATABASE_GLENS_PLAYGROUND, OtherId}]
       \/ input \in [payload : {PageCreatedIn(id) : id \in Ids}, targetDatabaseId : Ids]

\* A predicate returned r, or threw when r is "TypeError".
Returned(fn, r) ==
    /\ output = None
    /\ output' = Some([fn |-> fn, threw |-> (r = "TypeError"), value |-> r, arg |-> <<>>])
    /\ UNCHANGED <<handlerVars, executorVars, clientVars, input>>

ExpectedTypeLists == { {}, { <<"page", "created">> },
                       { <<"page", "created">>, <<"database", "created">> } }

IsEventTypeCalled ==
    \E expectedTypes \in ExpectedTypeLists :
        Returned("isEventType", IsEventType(input.payload, expectedTypes))

IsPageEventCalled == Returned("isPageEvent", IsPageEvent(input.payload))

IsUserTriggeredEventCalled ==
    Returned("isUserTriggeredEvent", IsUserTriggeredEvent(input.payload))

IsPageEventFromDatabaseCalled ==
    Returned("isPageEventFromDatabase",
             IsPageEventFromDatabase(input.payload, input.targetDatabaseId))

\* shouldExecute of vancouverHouse2Processor
VancouverHouse2ShouldExecuteCalled ==
    Returned("vancouverHouse2.shouldExecute", Call("vancouverHouse2", input.payload))

ExtractDatabaseIdFromPayloadCalled ==
    /\ output = None
    /\ output' = Some([fn |-> "extractDatabaseIdFromPayload", threw |-> FALSE,
                       value |-> ExtractDatabaseIdFromPayload(input.payload),
                       arg |-> <<>>])
    /\ UNCHANGED <<handlerVars, executorVars, clientVars, input>>

\* The two ids isPageEventFromDatabase compares.
ParentId == Get(ParentOf(input.payload)).id
HasParentId == IsSome(ParentOf(input.payload)) /\ IsSome(ParentId)

\* normalizeNotionId applied to the parent id and to the target id.
NormalizeNotionIdCalled ==
    /\ output = None
    /\ HasParentId
    /\ output' = Some([fn |-> "normalizeNotionId", threw |-> FALSE,
                       value |-> << NormalizeNotionId(Get(ParentId)),
                                    NormalizeNotionId(input.targetDatabaseId) >>,
                       arg |-> << Get(ParentId), input.targetDatabaseId >>])
    /\ UNCHANGED <<handlerVars, executorVars, clientVars, input>>

\* normalizeNotionId applied to its own results.
NormalizeNotionIdCalledAgain ==
    /\ output # None
    /\ Get(output).fn = "normalizeNotionId"
    /\ output' = Some([fn |-> "normalizeNotionId twice", threw |-> FALSE,
                       value |-> << NormalizeNotionId(Get(output).value[1]),
                                    NormalizeNotionId(Get(output).value[2]) >>,
                       arg |-> Get(output).value])
    /\ UNCHANGED <<handlerVars, executorVars, clientVars, input>>

NextNotionUtils ==
    \/ IsEventTypeCalled
    \/ IsPageEventCalled
    \/ IsUserTriggeredEventCalled
    \/ ExtractDatabaseIdFromPayloadCalled
    \/ IsPageEventFromDatabaseCalled
    \/ VancouverHouse2ShouldExecuteCalled
    \/ NormalizeNotionIdCalled
    \/ NormalizeNotionIdCalledAgain

SpecNotionUtils == InitNotionUtils /\ [][NextNotionUtils]_vars

(***************************************************************************)
(* vancouverHouse2Executor                                                 *)
(***************************************************************************)
\* The keys extractAddress reads, in its order.
AddressKeys == <<"Address", "address", "Property Address", "Location", "location">>
TitleKeys == <<"Name", "name", "Title", "title">>

\* String.prototype.trim on a sequence of characters: leading and trailing
\* white space goes.
Trim(t) ==
    LET inked == { i \in 1..Len(t) : t[i] # " " }
    IN  IF inked = {} THEN <<>>
        ELSE SubSeq(t, CHOOSE i \in inked : \A j \in inked : i <= j,
                       CHOOSE i \in inked : \A j \in inked : i >= j)

\* typeof value === "string" && value.trim().length > 0, of a property that
\* may be missing (or null).
IsNonBlankString(v) == IsSome(v) /\ Get(v).isString /\ Len(Trim(Get(v).text)) > 0

\* extractAddress: the first address key holding a non-blank string, else
\* the title (Name || name || Title || title) when it is a non-blank string,
\* else null.
ExtractAddress(properties) ==
    LET found == SelectSeq(AddressKeys, LAMBDA k : IsNonBlankString(properties[k]))
        truthy == SelectSeq(TitleKeys, LAMBDA k :
                      IsSome(properties[k]) /\ Truthy(Get(properties[k])))
        title == IF truthy = <<>> THEN properties["title"] ELSE properties[Head(truthy)]
    IN  IF found # <<>> THEN Some(Trim(Get(properties[Head(found)]).text))
        ELSE IF IsNonBlankString(title) THEN Some(Trim(Get(title).text))
        ELSE None

\* A page with no property.
NoProperties == [k \in Range(AddressKeys) \cup Range(TitleKeys) |-> None]

\* A property value of a page as simplifyPageProperties gives it: no such
\* property (or null), a string of white space only, a string with text, a
\* number.
PropertyValues == { None, Some(Str(<<" ">>)), Some(Str(<<"1", " ", "M">>)), Some(NotAString) }

\* Pages the executor fetches, by the Address and the Name they hold.
Pages == { [NoProperties EXCEPT !["Address"] = a, !["Name"] = n] : a, n \in PropertyValues }

PageId == <<"p", "1">>

\* Payloads handed to the executor: the entity with or without an id, the
\* parent a database, a page, a database without id, or missing.
ExecutorPayloads ==
    [ kind : {"object"}, truthy : {TRUE},
      type : {Some(<<"page", "created">>)},
      entity : {None, Some([type |-> "page", id |-> None]),
                Some([type |-> "page", id |-> Some(PageId)])},
      authors : {Some(<<"person">>)},
      data : {None,
              Some([parent |-> Some([type |-> "data_source", id |-> Some(Vh2IdDashed)])]),
              Some([parent |-> Some([type |-> "page", id |-> Some(OtherId)])]),
              Some([parent |-> Some([type |-> "database", id |-> None])])},
      verification_token : {None}, challenge : {None}, token : {None},
      secret : {None} ]

\* extractPageIdFromPayload: payload.entity?.id
ExtractPageIdFromPayload(p) == IF IsSome(p.entity) THEN Get(p.entity).id ELSE None

InitExecutor ==
    /\ HandlersIdle
    /\ ClientIdle
    /\ BackgroundIdle
    /\ output = None
    /\ input \in [payload : ExecutorPayloads, targetDatabaseId : {<<>>}]
    /\ epc = "start"
    /\ ExecutorFresh

\* return value: the executor is over.
Return(value) ==
    /\ executorResult' = Some(value)
    /\ epc' = "done"

\* The step named failed (its helper returned null, threw or rejected).
Fails(step) == failed' = failed \cup {step}

\* const pageId = extractPageIdFromPayload(payload); if (!pageId) return false
ExtractPageId ==
    /\ epc = "start"
    /\ IF ~IsSome(ExtractPageIdFromPayload(input.payload))
       THEN Return("false")
       ELSE epc' = "fetchPage" /\ UNCHANGED executorResult
    /\ UNCHANGED <<handlerVars, utilVars, clientVars, page, research, failed>>

\* const page = await fetchPage(pageId): the page, or null (no client, a
\* failed or partial retrieve); then the parent database id is read off the
\* payload.
FetchPageSettles ==
    /\ epc = "fetchPage"
    /\ \E fetched \in Maybe(Pages) :
          /\ page' = fetched
          /\ IF ~IsSome(fetched)
             THEN Fails("fetchPage") /\ Return("false")
             ELSE IF ~IsSome(ExtractDatabaseIdFromPayload(input.payload))
             THEN Return("false") /\ UNCHANGED failed
             ELSE epc' = "fetchDatabaseDataSource" /\ UNCHANGED <<failed, executorResult>>
    /\ UNCHANGED <<handlerVars, utilVars, clientVars, research>>

\* const dataSource = await fetchDatabaseDataSource(databaseId); then the
\* address is taken from the page: without one there is nothing to research;
\* with one both research calls are started.
FetchDatabaseDataSourceSettles ==
    /\ epc = "fetchDatabaseDataSource"
    /\ \E fetched \in BOOLEAN :
          IF ~fetched
          THEN Fails("fetchDatabaseDataSource") /\ Return("false") /\ UNCHANGED research
          ELSE IF ~IsSome(ExtractAddress(Get(page)))
          THEN Return("true") /\ UNCHANGED <<failed, research>>
          ELSE /\ epc' = "research"
               /\ research' = [property |-> "pending", surroundings |-> "pending"]
               /\ UNCHANGED <<failed, executorResult>>
    /\ UNCHANGED <<handlerVars, utilVars, clientVars, page>>

\* researchPropertyValues settles: with the researched values, with null
\* because no property is missing, with null because the Gemini call failed
\* (caught inside), or rejected.
ResearchPropertyValuesSettles ==
    /\ epc = "research"
    /\ research.property = "pending"
    /\ \E o \in {"value", "nothing missing", "error", "rejected"} :
          /\ research' = [research EXCEPT !.property = o]
          /\ IF o \in {"error", "rejected"}
             THEN Fails("researchPropertyValues") ELSE UNCHANGED failed
    /\ UNCHANGED <<handlerVars, utilVars, clientVars, epc, page, executorResult>>

\* researchSurroundings settles: with the surroundings, with null because the
\* Gemini call failed (caught inside), or rejected.
ResearchSurroundingsSettles ==
    /\ epc = "research"
    /\ research.surroundings = "pending"
    /\ \E o \in {"value", "error", "rejected"} :
          /\ research' = [research EXCEPT !.surroundings = o]
          /\ IF o \in {"error", "rejected"}
             THEN Fails("researchSurroundings") ELSE UNCHANGED failed
    /\ UNCHANGED <<handlerVars, utilVars, clientVars, epc, page, executorResult>>

\* After the property write-back: if (surroundingsResult) append, else
\* return true.
AfterUpdate ==
    IF research.surroundings = "value"
    THEN epc' = "appendSurroundingsTable" /\ UNCHANGED executorResult
    ELSE Return("true")

\* Promise.allSettled of the two research calls has resolved: a rejected or
\* null result is logged and skipped.
ResearchSettled ==
    /\ epc = "research"
    /\ research.property # "pending"
    /\ research.surroundings # "pending"
    /\ IF research.property = "value"
       THEN epc' = "updatePageProperties" /\ UNCHANGED executorResult
       ELSE AfterUpdate
    /\ UNCHANGED <<handlerVars, utilVars, clientVars, page, research, failed>>

\* await updatePageProperties(...): it resolves to nothing, whether
\* client.pages.update succeeded, had nothing to send, or failed (caught
\* inside); it rejects when the researched values have no filledProperties
\* to iterate, which the executor's catch turns into false.
UpdatePagePropertiesSettles ==
    /\ epc = "updatePageProperties"
    /\ \E o \in {"updated", "nothing to update", "update failed", "threw"} :
          /\ IF o \in {"update failed", "threw"}
             THEN Fails("updatePageProperties") ELSE UNCHANGED failed
          /\ IF o = "threw" THEN Return("false") ELSE AfterUpdate
    /\ UNCHANGED <<handlerVars, utilVars, clientVars, page, research>>

\* await appendSurroundingsTable(...): it resolves to nothing, whether
\* client.blocks.children.append succeeded or failed (caught inside); then
\* return true.
AppendSurroundingsTableSettles ==
    /\ epc = "appendSurroundingsTable"
    /\ \E o \in {"appended", "append failed"} :
          IF o = "append failed"
          THEN Fails("appendSurroundingsTable") ELSE UNCHANGED failed
    /\ Return("true")
    /\ UNCHANGED <<handlerVars, utilVars, clientVars, page, research>>

NextExecutor ==
    \/ ExtractPageId
    \/ FetchPageSettles
    \/ FetchDatabaseDataSourceSettles
    \/ ResearchPropertyValuesSettles
    \/ ResearchSurroundingsSettles
    \/ ResearchSettled
    \/ UpdatePagePropertiesSettles
    \/ AppendSurroundingsTableSettles

SpecExecutor == InitExecutor /\ [][NextExecutor]_vars

(***************************************************************************)
(* extractAddress called on its own                                        *)
(***************************************************************************)
\* Strings of a property: empty, blank, padded, plain.
PropertyTexts == { <<>>, <<" ">>, <<" ", "a", " ", "b", " ">>, <<"c">> }

\* Every page holding up to MaxProperties of the keys, each a string or a
\* value that is no string.
AddressPages ==
    { p \in [Range(AddressKeys) \cup Range(TitleKeys) ->
                Maybe({Str(t) : t \in PropertyTexts} \cup {NotAString})] :
        Cardinality({ k \in DOMAIN p : IsSome(p[k]) }) <= MaxProperties }

InitExtractAddress ==
    /\ HandlersIdle
    /\ ExecutorIdle
    /\ ClientIdle
    /\ BackgroundIdle
    /\ output = None
    /\ input \in [properties : AddressPages]

ExtractAddressCalled ==
    /\ output = None
    /\ output' = Some([fn |-> "extractAddress", threw |-> FALSE,
                       value |-> ExtractAddress(input.properties), arg |-> <<>>])
    /\ UNCHANGED <<handlerVars, executorVars, clientVars, input>>

SpecExtractAddress == InitExtractAddress /\ [][ExtractAddressCalled]_vars

(***************************************************************************)
(* validateWebhookRequest called on its own                                *)
(***************************************************************************)
\* Any request and secret; the request as it arrived, or after
\* handleVerificationRequest has read a clone of it.
InitValidation ==
    /\ HandlersIdle
    /\ ExecutorIdle
    /\ ClientIdle
    /\ BackgroundIdle
    /\ output = None
    /\ input \in [request : Requests, secret : Secrets, reads : {<<>>, ReadCloneBody(<<>>)}]

\* await validateWebhookRequest(request, secret): request.text() is awaited
\* outside any try, and rejects when the body has been used.
ValidateWebhookRequestCalled ==
    /\ output = None
    /\ LET validation == ValidateWebhookRequest(input.request, input.secret)
       IN  output' = Some([fn |-> "validateWebhookRequest",
                           threw |-> validation.read /\ BodyUsed(input.reads),
                           value |-> validation, arg |-> <<>>])
    /\ UNCHANGED <<handlerVars, executorVars, clientVars, input>>

SpecValidation == InitValidation /\ [][ValidateWebhookRequestCalled]_vars

(***************************************************************************)
(* researchPropertyValues called on its own                                *)
(***************************************************************************)
\* Property names of the page, and what the schema says of each: nothing,
\* a data type, or button.
ResearchKeys == {"Price", "ActionButton"}
SchemaEntries == Maybe({"number", "button"})

\* Values of currentValues[key]: null, undefined, a number (0 too), strings
\* and arrays by their length.
JsValues ==
    [type : {"null", "undefined", "number"}, length : {0}]
        \cup [type : {"string", "array"}, length : {0, 1}]

\* A missing test that forgets the button rule.
IsMissingButtonsToo(entry, value) ==
    \/ value.type = "null"
    \/ value.type = "string" /\ value.length = 0
    \/ value.type = "array" /\ value.length = 0

\* The loop body: skip when schema[key]?.type === "button"; missing when
\* value === null || value === "" || (Array.isArray(value) && value.length === 0)
IsMissing(entry, value) ==
    /\ entry # Some("button")
    /\ \/ value.type = "null"
       \/ value.type = "string" /\ value.length = 0
       \/ value.type = "array" /\ value.length = 0

\* missingProperties, over Object.entries(currentValues)
MissingProperties(schema, currentValues) ==
    { k \in ResearchKeys : IsSome(currentValues[k]) /\ IsMissing(schema[k], Get(currentValues[k])) }

InitResearch ==
    /\ HandlersIdle
    /\ ExecutorIdle
    /\ ClientIdle
    /\ BackgroundIdle
    /\ output = None
    /\ input \in [schema : [ResearchKeys -> SchemaEntries],
                   currentValues : [ResearchKeys -> Maybe(JsValues)]]

\* researchPropertyValues up to its return null or its await callGemini(...)
IdentifyMissing ==
    /\ output = None
    /\ LET missing == MissingProperties(input.schema, input.currentValues)
       IN  output' =
             IF missing = {}
             THEN Some([fn |-> "researchPropertyValues", threw |-> FALSE, value |-> "null",
                        arg |-> [missing |-> missing, geminiCalls |-> 0, gemini |-> "none"]])
             ELSE Some([fn |-> "await callGemini", threw |-> FALSE, value |-> "pending",
                        arg |-> [missing |-> missing, geminiCalls |-> 1, gemini |-> "pending"]])
    /\ UNCHANGED <<handlerVars, executorVars, clientVars, input>>

\* How the Gemini call may go: the structured output arrives, or callGemini,
\* result.text or result.output rejects.
GeminiOutcomes == {"output", "callGemini rejects", "text rejects", "output rejects"}

\* try { ... return output } catch { return null }
GeminiSettles ==
    /\ output # None
    /\ Get(output).fn = "await callGemini"
    /\ \E o \in GeminiOutcomes :
          output' = Some([fn |-> "researchPropertyValues", threw |-> FALSE,
                          value |-> IF o = "output" THEN "PropertyValues" ELSE "null",
                          arg |-> [Get(output).arg EXCEPT !.gemini = o]])
    /\ UNCHANGED <<handlerVars, executorVars, clientVars, input>>

NextResearch ==
    \/ IdentifyMissing
    \/ GeminiSettles

SpecResearch == InitResearch /\ [][NextResearch]_vars

(***************************************************************************)
(* getNotionClient                                                         *)
(***************************************************************************)
\* The executors that call getNotionClient (through fetchPage,
\* fetchDatabase, updatePageProperties, ...), running concurrently.
ClientCallers == {"vancouverHouse2", "smallBusinessAcquisition"}

\* A getNotionClient that constructs a client on every call with a key.
GetNotionClientNoCache(cached, key, made) ==
    IF key = "" THEN [value |-> None, cached |-> cached, made |-> made]
    ELSE [value |-> Some(made + 1), cached |-> Some(made + 1), made |-> made + 1]

\* getNotionClient: the cached client if there is one; null, caching
\* nothing, without a key; else a new client, cached.  A client is named by
\* the number of its construction.
GetNotionClient(cached, key, made) ==
    IF IsSome(cached) THEN [value |-> cached, cached |-> cached, made |-> made]
    ELSE IF key = "" THEN [value |-> None, cached |-> None, made |-> made]
    ELSE [value |-> Some(made + 1), cached |-> Some(made + 1), made |-> made + 1]

InitClient ==
    /\ HandlersIdle
    /\ UtilIdle
    /\ ExecutorIdle
    /\ BackgroundIdle
    /\ apiKey \in {"", "ntn_key"}
    /\ ClientLoaded

\* One call of getNotionClient: the function is synchronous, so calls of
\* concurrent executors run one after the other.
GetNotionClientCalled(c) ==
    /\ Len(clientReturns) < MaxClientCalls
    /\ LET r == GetNotionClient(notionClient, apiKey, constructed)
       IN  /\ notionClient' = r.cached
           /\ constructed' = r.made
           /\ clientReturns' = Append(clientReturns,
                                      [caller |-> c, value |-> r.value, keySet |-> apiKey # ""])
    /\ UNCHANGED <<handlerVars, utilVars, executorVars, apiKey>>

\* The environment sets NOTION_API_KEY.
SetApiKey ==
    /\ apiKey = ""
    /\ apiKey' = "ntn_key"
    /\ UNCHANGED <<handlerVars, utilVars, executorVars, notionClient, constructed, clientReturns>>

\* The environment removes NOTION_API_KEY.
UnsetApiKey ==
    /\ apiKey # ""
    /\ apiKey' = ""
    /\ UNCHANGED <<handlerVars, utilVars, executorVars, notionClient, constructed, clientReturns>>

NextClient ==
    \/ \E c \in ClientCallers : GetNotionClientCalled(c)
    \/ SetApiKey
    \/ UnsetApiKey

SpecClient == InitClient /\ [][NextClient]_vars

(***************************************************************************)
(* ScopedLogger                                                            *)
(***************************************************************************)
LogLevels == {"debug", "info", "warn", "error"}
Scopes == {"handleWebhookPayload", "processWebhookInBackground"}

\* log: nothing once _ended is set, else one record on the console.
LoggerLog(lg, level, message) ==
    IF lg.ended THEN lg
    ELSE [lg EXCEPT !.records = Append(@, [level |-> level, message |-> message])]

\* end: nothing once _ended is set; else _ended = true, then log("info", "End").
LoggerEnd(lg) ==
    IF lg.ended THEN lg
    ELSE LoggerLog([lg EXCEPT !.ended = TRUE], "info", "End")

\* new ScopedLogger(scope): _ended = false, then log("info", "Start").
NewScopedLogger(scope) ==
    LoggerLog([scope |-> scope, ended |-> FALSE, records |-> <<>>], "info", "Start")

\* The calls made on the logger so far are kept in input.
InitLogger ==
    /\ HandlersIdle
    /\ ExecutorIdle
    /\ ClientIdle
    /\ input = <<>>
    /\ output = None
    /\ BackgroundIdle

LoggerCalled(call, lg) ==
    /\ Len(input) < MaxLoggerCalls
    /\ input' = Append(input, call)
    /\ logger' = Some(lg)
    /\ UNCHANGED <<requestVars, executorVars, clientVars, output, callerResumed, task>>

ConstructLogger ==
    /\ logger = None
    /\ \E scope \in Scopes : LoggerCalled("new", NewScopedLogger(scope))

LogCalled ==
    /\ logger # None
    /\ \E level \in LogLevels : LoggerCalled("log", LoggerLog(Get(logger), level, "message"))

EndCalled ==
    /\ logger # None
    /\ LoggerCalled("end", LoggerEnd(Get(logger)))

NextLogger ==
    \/ ConstructLogger
    \/ LogCalled
    \/ EndCalled

SpecLogger == InitLogger /\ [][NextLogger]_vars

(***************************************************************************)
(* processWebhookInBackground                                              *)
(***************************************************************************)
\* processWebhookInBackground(payload) called with any value, against the
\* shipped registry.
InitBackground ==
    /\ caller = "background"
    /\ req = NoRequest
    /\ webhookSecret = ""
    /\ allProcessors = ShippedRegistry
    /\ payload \in ObjectPayloads \cup NonObjectPayloads \cup {ArrayPayload}
    /\ pc = "processWebhookInBackground"
    /\ FreshDispatch
    /\ UtilIdle
    /\ ExecutorIdle
    /\ ClientIdle
    /\ BackgroundIdle

\* queueMicrotask(async () => ...): the callback is queued and the function
\* returns to its caller.
QueueMicrotask ==
    /\ pc = "processWebhookInBackground"
    /\ pc' = "queued"
    /\ task' = "queued"
    /\ callerResumed' = TRUE
    /\ UNCHANGED <<caller, req, webhookSecret, allProcessors, payload, dispatchVars, summary,
                   thrown, response, bodyReads, utilVars, executorVars, clientVars, logger>>

\* The microtask runs: the logger is made, the start is logged and
\* handleWebhookPayload(payload) is called.
RunMicrotask ==
    /\ pc = "queued"
    /\ pc' = "handleWebhookPayload"
    /\ task' = "running"
    /\ logger' = Some(LoggerLog(NewScopedLogger("processWebhookInBackground"), "info",
                                "Starting background webhook processing"))
    /\ UNCHANGED <<caller, req, webhookSecret, allProcessors, payload, dispatchVars, summary,
                   thrown, response, bodyReads, utilVars, executorVars, clientVars,
                   callerResumed>>

\* A callback with try and finally but no catch: the error leaves it.
AfterAwaitWithoutCatch(lg, result, error) ==
    IF IsSome(result)
    THEN [logger |-> LoggerEnd(LoggerLog(lg, "info", "Background webhook processing completed")),
          task |-> "fulfilled"]
    ELSE [logger |-> LoggerEnd(lg), task |-> "rejected"]

\* The callback after await handleWebhookPayload(payload): the result is
\* logged, or the error is caught and its message logged; finally
\* logger.end(), and the callback's promise fulfils.
AfterAwait(lg, result, error) ==
    IF IsSome(result)
    THEN [logger |-> LoggerEnd(LoggerLog(lg, "info", "Background webhook processing completed")),
          task |-> "fulfilled"]
    ELSE [logger |-> LoggerEnd(LoggerLog(lg, "error", Get(error))), task |-> "fulfilled"]

\* handleWebhookPayload has returned or thrown inside the microtask.
TaskSettles ==
    /\ caller = "background"
    /\ pc \in {"returned", "thrown"}
    /\ LET after == AfterAwait(Get(logger), summary, thrown)
       IN  /\ logger' = Some(after.logger)
           /\ task' = after.task
    /\ pc' = "task done"
    /\ UNCHANGED <<caller, req, webhookSecret, allProcessors, payload, dispatchVars, summary,
                   thrown, response, bodyReads, utilVars, executorVars, clientVars,
                   callerResumed>>

NextBackground ==
    \/ QueueMicrotask
    \/ RunMicrotask
    \/ CheckPayload
    \/ EvaluateIsEnabled
    \/ EvaluateShouldExecute
    \/ FilterDone
    \/ StartExecutor
    \/ AwaitAllSettled
    \/ \E name \in ProcessorNames : Settle(name)
    \/ ReturnSummary
    \/ TaskSettles

SpecBackground == InitBackground /\ [][NextBackground]_vars

(***************************************************************************)
(* handleIntegrationWebhook over a wider choice of request bodies          *)
(***************************************************************************)
\* JSON objects with every choice of the four token fields.
TokenObjects ==
    [ kind : {"object"}, truthy : {TRUE}, type : {None}, entity : {None},
      authors : {None}, data : {None},
      verification_token : Maybe(TokenValues), challenge : Maybe(TokenValues),
      token : Maybe(TokenValues), secret : Maybe(TokenValues) ]

\* The bodies of the dispatch, every token object, an event of a database no
\* processor is for, and a JSON string.
HttpBodies ==
    Bodies \cup [ isJson : {TRUE},
                  value : TokenObjects \cup {PageCreatedIn(OtherId), NoFields("string", TRUE)},
                  text : {<<>>} ]

HttpRequests ==
    UNION { [method : {"POST", "GET"}, signature : SignatureHeaders(b), body : {b}]
            : b \in HttpBodies }

SpecHttp == InitHttpOf(HttpRequests) /\ [][Next]_vars

(***************************************************************************)
(* Properties                                                              *)
(***************************************************************************)
\* p.isEnabled and p.shouldExecute are both true for the payload.
Matches(name, p) ==
    /\ Evaluate(Processor(name).isEnabled, p) = "true"
    /\ Evaluate(Processor(name).shouldExecute, p) = "true"

MatchedSet == { n \in Range(allProcessors) : Matches(n, payload) }

\* handleWebhookPayload has been entered and has passed its first statement.
Dispatched == pc \in {"filter", "map", "await", "returned", "thrown"}
                 \/ IsSome(summary) \/ IsSome(thrown)

\* handleWebhookPayload has returned or thrown.
DispatchOver == IsSome(summary) \/ IsSome(thrown)

\* An object in the sense of typeof, null apart.
IsObject(p) == p.kind \in {"object", "array"}

NoProcessorTouched ==
    /\ isEnabledCalls = Zero
    /\ shouldExecuteCalls = Zero
    /\ executorCalls = Zero
    /\ idx = 1
    /\ processorsToExecute = <<>>

Throwers == { n \in ProcessorNames : outcome[n] \in {"throw", "reject"} }

\* C1 (as claimed): once dispatch of an object payload is over, a processor's
\* executor has been invoked if and only if its isEnabled and shouldExecute
\* are both true for the payload, and when no processor matches the summary
\* is processed=false, processorsExecuted=0.
C1_ExecutorInvokedIffMatched ==
    (DispatchOver /\ payload.kind = "object") =>
        /\ \A n \in Range(allProcessors) : (executorCalls[n] >= 1) <=> Matches(n, payload)
        /\ MatchedSet = {} =>
              /\ IsSome(summary)
              /\ ~Get(summary).processed
              /\ Get(summary).processorsExecuted = 0

\* C2: an executor that throws or rejects never makes handleWebhookPayload
\* throw; its result is a failure, a summary is what the call ends with, and
\* the processor is not among those counted in processorsExecuted.
C2_ExecutorThrowIsFailure ==
    Throwers # {} =>
        /\ thrown = None
        /\ pc # "thrown"
        /\ \A n \in Throwers : executionResults[n] \in {"pending", "false"}
        /\ pc \in {"returned", "responded"} =>
              /\ IsSome(summary)
              /\ Get(summary).processorsExecuted
                    <= Len(processorsToExecute) - Cardinality(Throwers)

C2_Witness ==
    /\ pc = "returned"
    /\ IsSome(summary)
    /\ \E n \in ProcessorNames : outcome[n] = "throw"
    /\ \E n \in ProcessorNames : outcome[n] = "reject"

\* C3: once the map is over every matched executor has been started exactly
\* once, whatever the other executors do; each settles to its own outcome;
\* the summary waits for all of them, and with one executor resolving true
\* and another failing it is processorsExecuted >= 1, processed = true.
C3_ExecutorsIndependent ==
    (pc \in {"await", "returned"} \/ IsSome(summary)) =>
        /\ thrown = None
        /\ \A k \in 1..Len(processorsToExecute) :
              LET n == processorsToExecute[k]
              IN  /\ executorCalls[n] = 1
                  /\ outcome[n] \in ExecutorOutcomes
                  /\ executionResults[n] \in
                        {"pending", IF outcome[n] = "true" THEN "true" ELSE "false"}
                  /\ IsSome(summary) => executionResults[n] # "pending"
        /\ (IsSome(summary) /\ \E n \in Range(processorsToExecute) : outcome[n] = "true")
              => Get(summary).processed

C3_Witness ==
    /\ pc = "returned"
    /\ Len(processorsToExecute) = 2
    /\ outcome[processorsToExecute[1]] = "throw"
    /\ outcome[processorsToExecute[2]] = "true"
    /\ Get(summary).processorsExecuted = 1
    /\ Get(summary).processed
    /\ thrown = None

\* C4: in a returned summary processorsExecuted is the number of matched
\* executors whose promise settled to success true, processed is
\* processorsExecuted > 0, and 0 <= processorsExecuted <= matched <= registry.
C4_SummaryCounts ==
    IsSome(summary) =>
        LET s == Get(summary)
            settledTrue == { n \in Range(processorsToExecute) :
                               outcome[n] = "true" /\ executionResults[n] = "true" }
        IN  /\ s.processorsExecuted = Cardinality(settledTrue)
            /\ s.processed <=> (s.processorsExecuted > 0)
            /\ 0 <= s.processorsExecuted
            /\ s.processorsExecuted <= Len(processorsToExecute)
            /\ Len(processorsToExecute) <= Len(allProcessors)

C4_Witness ==
    /\ IsSome(summary)
    /\ Len(processorsToExecute) = 2
    /\ outcome[processorsToExecute[1]] = "false"
    /\ outcome[processorsToExecute[2]] = "true"
    /\ Get(summary).processorsExecuted = 1

\* C5: a payload that is null, undefined or a primitive makes
\* handleWebhookPayload throw "Invalid payload: expected an object" in its
\* first step: no predicate has been evaluated, no executor started, nothing
\* of the registry read.
C5_InvalidPayloadThrowsFirst ==
    (Dispatched /\ ~IsObject(payload)) =>
        /\ thrown = Some("Invalid payload: expected an object")
        /\ summary = None
        /\ pc \in {"thrown", "responded"}
        /\ NoProcessorTouched

C5_Witness ==
    /\ pc = "thrown"
    /\ payload.kind = "null"
    /\ Len(allProcessors) >= 1
    /\ thrown = Some("Invalid payload: expected an object")

\* C6 (as claimed): handleWebhookPayload throws for a non-object payload
\* only; for every object payload, whatever fields it lacks, it ends with a
\* summary.
C6_ThrowsOnlyForNonObject ==
    (payload.kind = "object" /\ Dispatched) =>
        /\ thrown = None
        /\ pc \in {"returned", "thrown", "responded"} => IsSome(summary)

\* C7: shouldExecute of a processor whose isEnabled is false for the
\* envelope is never called; shouldExecute is called at most once, and only
\* when isEnabled has been evaluated (once) and was true.
C7_ShortCircuit ==
    \A n \in ProcessorNames :
        LET p == Processor(n)
        IN  /\ Evaluate(p.isEnabled, payload) = "false" => shouldExecuteCalls[n] = 0
            /\ shouldExecuteCalls[n] <= 1
            /\ isEnabledCalls[n] <= 1
            /\ shouldExecuteCalls[n] = 1 =>
                  /\ Evaluate(p.isEnabled, payload) = "true"
                  /\ p.isEnabled.isFunction => isEnabledCalls[n] = 1

C7_Witness ==
    /\ pc = "returned"
    /\ Len(allProcessors) = 2
    /\ allProcessors[1] = "disabledProcessor"
    /\ shouldExecuteCalls["disabledProcessor"] = 0
    /\ shouldExecuteCalls[allProcessors[2]] = 1
    /\ Call("glensPlayground", payload) = "true"

\* C8: the matched set is the set of registry entries whose two predicates
\* are true, and the summary is the number of those whose executor resolved
\* true: both are functions of the set of registry entries, so no order of
\* the registry changes them.
C8_RegistryOrderIrrelevant ==
    (pc \in {"map", "await", "returned"} \/ IsSome(summary)) =>
        LET matched == MatchedSet
        IN  /\ Range(processorsToExecute) = matched
            /\ IsSome(summary) =>
                  /\ Get(summary).processorsExecuted =
                        Cardinality({ n \in matched : outcome[n] = "true" })
                  /\ Get(summary).processed <=> (\E n \in matched : outcome[n] = "true")

C8_Witness ==
    /\ pc = "returned"
    /\ allProcessors = <<"gatedProcessor", "disabledProcessor", "glensPlayground">>
    /\ processorsToExecute = <<"gatedProcessor", "glensPlayground">>
    /\ Get(summary).processorsExecuted = 2

\* C9: whatever the order in which the executors complete, the summary
\* counts the executors in the completion sequence whose outcome is true;
\* the completion sequence holds every matched executor once.
C9_CompletionOrderIrrelevant ==
    IsSome(summary) =>
        /\ Len(settleOrder) = Len(processorsToExecute)
        /\ Range(settleOrder) = Range(processorsToExecute)
        /\ Get(summary).processorsExecuted =
              Cardinality({ i \in 1..Len(settleOrder) : outcome[settleOrder[i]] = "true" })
        /\ Get(summary).processed <=>
              (\E i \in 1..Len(settleOrder) : outcome[settleOrder[i]] = "true")

\* The executors completed in the reverse of the order they were started in.
C9_Witness ==
    /\ pc = "returned"
    /\ Len(processorsToExecute) = 2
    /\ settleOrder = <<processorsToExecute[2], processorsToExecute[1]>>
    /\ outcome[processorsToExecute[1]] = "true"
    /\ outcome[processorsToExecute[2]] = "false"
    /\ Get(summary).processorsExecuted = 1

\* The field holds nothing that could be a token: it is missing or empty.
NoTokenIn(p, f) == ~IsSome(p[f]) \/ Get(p[f]) = Str(<<>>)

\* The token of a JSON value, taken from field number i: a string starting
\* with "secret_", no field before it holding anything.
SecretTokenAt(p, i) ==
    /\ IsSome(p[TokenFields[i]])
    /\ Get(p[TokenFields[i]]).isString
    /\ StartsWithSecretPrefix(Get(p[TokenFields[i]]).text)
    /\ \A j \in 1..(i - 1) : NoTokenIn(p, TokenFields[j])

\* The request carries a verification token (JSON field or plain text).
RequestIsVerification ==
    \/ ~req.body.isJson /\ StartsWithSecretPrefix(req.body.text)
    \/ /\ req.body.isJson
       /\ \E i \in 1..Len(TokenFields) : SecretTokenAt(req.body.value, i)

\* The request passes every check of handleIntegrationWebhook.
RequestIsAuthentic ==
    /\ req.method = "POST"
    /\ ~RequestIsVerification
    /\ IsSome(req.signature)
    /\ webhookSecret # ""
    /\ Get(req.signature).hash = Some(Hmac(webhookSecret, req.body))
    /\ req.body.isJson

\* C10: in handleIntegrationWebhook a processor predicate or executor is
\* reached only for a POST request that is no verification request, carries a
\* signature header, under a configured secret, whose signature is the HMAC
\* of the body under that secret and whose body is JSON; the payload
\* dispatched is the parsed body.
C10_DispatchOnlyAfterValidation ==
    caller = "http" =>
        /\ (pc = "handleWebhookPayload" \/ Dispatched) =>
              (RequestIsAuthentic /\ payload = req.body.value)
        /\ ~RequestIsAuthentic => (NoProcessorTouched /\ summary = None /\ thrown = None)

C10_Witness ==
    /\ caller = "http"
    /\ pc = "responded"
    /\ executorCalls["glensPlayground"] = 1
    /\ Get(response).status = 200

\* The utility that was called, and what it was called on.
Called(fn) == output # None /\ Get(output).fn = fn
TypeHasPagePrefix(p) == IsSome(p.type) /\ Len(Get(p.type)) >= 2 /\ Get(p.type)[1] = "page"
EntityIsPage(p) == IsSome(p.entity) /\ Get(p.entity).type = "page"
HasCollectionParent(p) ==
    /\ IsSome(p.data)
    /\ IsSome(Get(p.data).parent)
    /\ Get(Get(p.data).parent).type \in {"database", "data_source"}
ParentIdMatches(p, target) ==
    /\ IsSome(p.data)
    /\ IsSome(Get(p.data).parent)
    /\ IsSome(Get(Get(p.data).parent).id)
    /\ NormalizeNotionId(Get(Get(Get(p.data).parent).id)) = NormalizeNotionId(target)

\* C11 (as claimed): no predicate utility throws, whatever fields the
\* envelope lacks; isPageEvent and isPageEventFromDatabase return false for
\* an envelope without a type, isPageEventFromDatabase returns false when
\* data, data.parent or parent.id is missing, extractDatabaseIdFromPayload
\* returns nothing when data or data.parent is missing.
C11_PredicatesTotal ==
    output # None =>
        LET o == Get(output)
            p == input.payload
        IN  /\ ~o.threw
            /\ (o.fn \in {"isPageEvent", "isPageEventFromDatabase"} /\ ~IsSome(p.type))
                  => o.value = "false"
            /\ (o.fn = "isPageEventFromDatabase" /\ ~ParentIdMatches(p, input.targetDatabaseId))
                  => o.value = "false"
            /\ (o.fn = "isUserTriggeredEvent" /\ ~IsSome(p.authors)) => o.value = "false"
            /\ (o.fn = "extractDatabaseIdFromPayload" /\ ~HasCollectionParent(p))
                  => o.value = None

HasPersonAuthor(p) ==
    IsSome(p.authors) /\ \E i \in 1..Len(Get(p.authors)) : Get(p.authors)[i] = "person"

\* C13: isUserTriggeredEvent returns true exactly when some author of the
\* list has type person, and false otherwise (no authors field, an empty
\* list, bots and agents only); vancouverHouse2's shouldExecute is true only
\* for an event with a person among its authors.
C13_UserTriggeredIff ==
    /\ Called("isUserTriggeredEvent") =>
          /\ (Get(output).value = "true") <=> HasPersonAuthor(input.payload)
          /\ ~HasPersonAuthor(input.payload) => Get(output).value = "false"
    /\ Called("vancouverHouse2.shouldExecute") =>
          /\ Get(output).value = "true" => HasPersonAuthor(input.payload)
          /\ ~HasPersonAuthor(input.payload) => Get(output).value = "false"

\* A person after a bot.
C13_Witness ==
    /\ Called("isUserTriggeredEvent")
    /\ input.payload.authors = Some(<<"bot", "person">>)
    /\ Get(output).value = "true"

UpperCaseLetters == {"A", "B", "C", "D", "E", "F"}
Clean(id) == \A i \in 1..Len(id) : id[i] # "-" /\ id[i] \notin UpperCaseLetters

\* C14: normalizeNotionId applied to its own result gives that result again,
\* and its result holds no dash and no upper-case letter.
C14_NormalizeIdempotent ==
    /\ Called("normalizeNotionId") =>
          Clean(Get(output).value[1]) /\ Clean(Get(output).value[2])
    /\ Called("normalizeNotionId twice") =>
          /\ Get(output).value = Get(output).arg
          /\ Clean(Get(output).value[1]) /\ Clean(Get(output).value[2])

\* An id with two dashes and an upper-case letter, normalized twice.
C14_Witness ==
    /\ Called("normalizeNotionId twice")
    /\ ParentId = Some(<<"-", "A", "-">>)
    /\ Get(output).value[1] = <<"a">>

SameLetter(c, d) ==
    c = d \/ {c, d} \in { {"a", "A"}, {"b", "B"}, {"c", "C"}, {"d", "D"}, {"e", "E"}, {"f", "F"} }

RECURSIVE SameButDashesAndCase(_, _)
\* x and y differ only in the case of letters and in where dashes stand.
SameButDashesAndCase(x, y) ==
    IF x # <<>> /\ Head(x) = "-" THEN SameButDashesAndCase(Tail(x), y)
    ELSE IF y # <<>> /\ Head(y) = "-" THEN SameButDashesAndCase(x, Tail(y))
    ELSE IF x = <<>> \/ y = <<>> THEN x = y
    ELSE SameLetter(Head(x), Head(y)) /\ SameButDashesAndCase(Tail(x), Tail(y))

\* C15: two ids normalize to the same string exactly when they differ only
\* in letter case and dashes, and isPageEventFromDatabase of a page event of
\* a database matches the target exactly for such ids.
C15_NormalizeEquatesDashesAndCase ==
    /\ Called("normalizeNotionId") =>
          (Get(output).value[1] = Get(output).value[2])
              <=> SameButDashesAndCase(Get(output).arg[1], Get(output).arg[2])
    /\ (Called("isPageEventFromDatabase") /\ HasParentId
          /\ input.payload = PageCreatedIn(Get(ParentId))) =>
          (Get(output).value = "true")
              <=> SameButDashesAndCase(Get(ParentId), input.targetDatabaseId)

\* The parent id "A-b" against the target "ab".
C15_Witness ==
    /\ Called("isPageEventFromDatabase")
    /\ HasParentId
    /\ ParentId = Some(<<"A", "-", "b">>)
    /\ input.targetDatabaseId = <<"a", "b">>
    /\ Get(output).value = "true"

\* The filter throws at this processor: its isEnabled throws, or its
\* isEnabled is true and its shouldExecute throws.
PredicateThrows(n, p) ==
    LET enabled == Evaluate(Processor(n).isEnabled, p)
    IN  \/ enabled = "TypeError"
        \/ enabled = "true" /\ Evaluate(Processor(n).shouldExecute, p) = "TypeError"

\* C16: when the isEnabled or shouldExecute of some registry entry throws
\* for an object payload, no executor is ever started and no summary is
\* returned; the dispatch ends by throwing that error (answered with 500 by
\* handleIntegrationWebhook).  Stated as: nothing started and ended by that
\* throw, or else no predicate throws.
C16_PredicateThrowPropagates ==
    LET nothingStarted ==
            /\ executorCalls = Zero
            /\ launched = 0
            /\ summary = None
            /\ pc \notin {"map", "await", "returned"}
        endedByThrow ==
            /\ pc \in {"thrown", "responded"} => thrown = Some("TypeError")
            /\ pc = "responded" => Get(response).status = 500
        someThrows == \E n \in Range(allProcessors) : PredicateThrows(n, payload)
    IN  (nothingStarted /\ endedByThrow) \/ ~(IsObject(payload) /\ someThrows)

\* glensPlayground matches and comes first; a later predicate throws.
C16_Witness ==
    /\ pc = "thrown"
    /\ thrown = Some("TypeError")
    /\ Len(allProcessors) = 3
    /\ allProcessors[1] = "glensPlayground"
    /\ Matches("glensPlayground", payload)
    /\ PredicateThrows("gatedProcessor", payload)
    /\ isEnabledCalls["gatedProcessor"] = 1
    /\ executorCalls = Zero

Pending == { n \in ProcessorNames : executionResults[n] = "pending" }

\* C17: while an executor that was started has not settled, no summary has
\* been returned; a returned summary comes after every started executor has
\* settled, none was dropped.
C17_SummaryAfterAllSettled ==
    /\ Pending # {} => (summary = None /\ pc \notin {"returned", "responded"})
    /\ IsSome(summary) =>
          \A n \in ProcessorNames :
              executorCalls[n] >= 1 =>
                  /\ executionResults[n] \in {"true", "false"}
                  /\ \E i \in 1..Len(settleOrder) : settleOrder[i] = n

\* Two executors started, the second settled, the call still waiting for
\* the first.
C17_Witness ==
    /\ pc = "await"
    /\ launched = 2
    /\ settleOrder = <<processorsToExecute[2]>>
    /\ Pending = {processorsToExecute[1]}
    /\ summary = None

\* C18: the summary returned for an object payload carries payload.type as
\* eventType and payload.entity.type (nothing when there is no entity) as
\* objectType, whatever matched and however the executors settled.
C18_SummaryEchoesTypes ==
    (IsSome(summary) /\ IsObject(payload)) =>
        /\ Get(summary).eventType = payload.type
        /\ IsSome(payload.entity) =>
              Get(summary).objectType = Some(Get(payload.entity).type)
        /\ ~IsSome(payload.entity) => Get(summary).objectType = None

\* A database entity under a page event type, one executor failing.
C18_Witness ==
    /\ IsSome(summary)
    /\ payload.type = Some(<<"page", "created">>)
    /\ payload.entity = Some([type |-> "database"])
    /\ Get(summary).eventType = Some(<<"page", "created">>)
    /\ Get(summary).objectType = Some("database")
    /\ \E n \in ProcessorNames : outcome[n] = "reject"

\* C19 (as claimed): vancouverHouse2Executor never throws; it returns true
\* only when no step it attempted failed, and false when the page id or the
\* parent database id is missing or when a fetch, a research call or a
\* write-back failed.
C19_ExecutorContract ==
    executorResult # None =>
        /\ Get(executorResult) \in {"true", "false"}
        /\ Get(executorResult) = "true" => failed = {}
        /\ ~IsSome(ExtractPageIdFromPayload(input.payload)) => Get(executorResult) = "false"
        /\ (IsSome(page) /\ ~IsSome(ExtractDatabaseIdFromPayload(input.payload)))
              => Get(executorResult) = "false"

\* C20: new Client runs at most once; once a call has returned a client
\* every later call returns that client; a call returns null only without a
\* key and before any client exists, and then nothing is cached, so the
\* first call made with the key set constructs the client.
C20_SingleClient ==
    /\ constructed <= 1
    /\ constructed = (IF IsSome(notionClient) THEN 1 ELSE 0)
    /\ IsSome(notionClient) <=>
          \E i \in 1..Len(clientReturns) : IsSome(clientReturns[i].value)
    /\ \A i \in 1..Len(clientReturns) :
          /\ clientReturns[i].keySet => clientReturns[i].value = Some(1)
          /\ ~IsSome(clientReturns[i].value) => ~clientReturns[i].keySet
          /\ \A j \in 1..Len(clientReturns) :
                (i < j /\ IsSome(clientReturns[i].value))
                    => clientReturns[j].value = clientReturns[i].value

\* A call without a key gives null; after the key is set the two executors
\* get the same client, the second one after the key is gone again.
C20_Witness ==
    /\ Len(clientReturns) = 3
    /\ clientReturns[1].value = None
    /\ clientReturns[2] = [caller |-> "vancouverHouse2", value |-> Some(1), keySet |-> TRUE]
    /\ clientReturns[3] = [caller |-> "smallBusinessAcquisition", value |-> Some(1),
                           keySet |-> FALSE]
    /\ constructed = 1

\* The token a verification request carries.
CarriedToken ==
    IF ~req.body.isJson THEN req.body.text
    ELSE LET i == CHOOSE i \in 1..Len(TokenFields) : SecretTokenAt(req.body.value, i)
         IN  Get(req.body.value[TokenFields[i]]).text

\* The response is a token echoed as text/plain.
IsEcho(r) == r.status = 200 /\ r.contentType = "text/plain"

\* C21: a POST request carrying a verification token (a string starting
\* with "secret_" in verification_token, else challenge, token or secret, or
\* as the whole of a body that is not JSON) is answered 200 with that token
\* as text/plain, with no signature validation and no processor touched
\* before or after; for any other body handleVerificationRequest returns
\* null without throwing, and the request goes on to validation.
C21_VerificationEcho ==
    LET verified == pc \notin {"handleIntegrationWebhook", "verification"}
    IN  /\ (req.method = "POST" /\ RequestIsVerification) =>
              /\ pc \in {"handleIntegrationWebhook", "verification", "responded"}
              /\ ~BodyUsed(bodyReads)
              /\ NoProcessorTouched /\ summary = None /\ thrown = None
              /\ pc = "responded" =>
                    response = Respond(200, "text/plain", Text(CarriedToken))
        /\ (req.method = "POST" /\ ~RequestIsVerification /\ verified) =>
              /\ pc # "rejected"
              /\ bodyReads # <<>> /\ bodyReads[1] = "clone"
              /\ pc = "responded" => ~IsEcho(Get(response))

\* No verification_token, an empty challenge, then a token and a secret that
\* are both secrets: the token field's value is echoed, unsigned.
C21_Witness ==
    /\ pc = "responded"
    /\ req.signature = None
    /\ req.body.isJson
    /\ req.body.value.verification_token = None
    /\ req.body.value.challenge = Some(Str(<<>>))
    /\ req.body.value.token = Some(Str(<<"secret_", "xyz">>))
    /\ req.body.value.secret = Some(Str(<<"secret_", "abc">>))
    /\ response = Respond(200, "text/plain", Text(<<"secret_", "xyz">>))

\* The records the background task's logger has emitted.
TaskRecords == IF logger = None THEN <<>> ELSE Get(logger).records

\* C22: processWebhookInBackground has returned to its caller before
\* handleWebhookPayload is entered; the promise of the queued task never
\* rejects (nothing is thrown to the caller, no unhandled rejection); an error
\* of handleWebhookPayload, the invalid-payload error included, ends as an
\* error record of the task's logger carrying its message.
C22_BackgroundErrorsContained ==
    /\ (pc = "handleWebhookPayload" \/ Dispatched) => callerResumed
    /\ task # "rejected"
    /\ (pc = "task done" /\ IsSome(thrown)) =>
          /\ task = "fulfilled"
          /\ \E i \in 1..Len(TaskRecords) :
                TaskRecords[i] = [level |-> "error", message |-> Get(thrown)]

\* The task ran handleWebhookPayload(null) after the caller had resumed, and
\* logged the invalid-payload error.
C22_Witness ==
    /\ pc = "task done"
    /\ payload.kind = "null"
    /\ callerResumed
    /\ task = "fulfilled"
    /\ TaskRecords[3] = [level |-> "error", message |-> "Invalid payload: expected an object"]

\* How many of the records carry the message, and how many of the calls
\* made so far are calls of the method.
Emitted(message) ==
    Cardinality({ i \in 1..Len(Get(logger).records) : Get(logger).records[i].message = message })
Calls(method) == Cardinality({ i \in 1..Len(input) : input[i] = method })
\* The log() calls made before the first end().
LogCallsBeforeEnd ==
    Cardinality({ i \in 1..Len(input) :
                    input[i] = "log" /\ \A j \in 1..i : input[j] # "end" })

\* C30 (as claimed): a ScopedLogger has emitted exactly one "Start" record,
\* first, once constructed; exactly one "End" record once end() has been
\* called, none before; and besides these one record for each log() call
\* made before the first end(), none for calls after it.
C30_LoggerStartEnd ==
    logger # None =>
        /\ Emitted("Start") = 1
        /\ Get(logger).records[1] = [level |-> "info", message |-> "Start"]
        /\ Emitted("End") = (IF Calls("end") >= 1 THEN 1 ELSE 0)
        /\ Emitted("message") = LogCallsBeforeEnd

\* The first key of the list holding a non-blank string, if any.
FirstNonBlank(properties, keys) ==
    LET held == { i \in 1..Len(keys) :
                    /\ IsSome(properties[keys[i]])
                    /\ Get(properties[keys[i]]).isString
                    /\ \E j \in 1..Len(Get(properties[keys[i]]).text) :
                          Get(properties[keys[i]]).text[j] # " " }
    IN  IF held = {} THEN None ELSE Some(keys[CHOOSE i \in held : \A j \in held : i <= j])

\* The text without the blanks around it.
Trimmed(t, u) ==
    /\ u # <<>> /\ Head(u) # " " /\ u[Len(u)] # " "
    /\ \E i, j \in 0..Len(t) :
          /\ t = [k \in 1..i |-> " "] \o u \o [k \in 1..j |-> " "]

\* C23 (as claimed): extractAddress returns the trimmed value of the first
\* of Address, address, Property Address, Location, location holding a
\* non-blank string; failing those, of the first of Name, name, Title, title
\* holding one; and null only when none of the nine keys holds a non-blank
\* string.
C23_ExtractAddressFirstNonBlank ==
    Called("extractAddress") =>
        LET properties == input.properties
            key == FirstNonBlank(properties, AddressKeys \o TitleKeys)
            value == Get(output).value
        IN  /\ IsSome(key) => /\ IsSome(value)
                              /\ Trimmed(Get(properties[Get(key)]).text, Get(value))
            /\ ~IsSome(key) => value = None

\* null, "" and [].
EmptyValues == { [type |-> "null", length |-> 0], [type |-> "string", length |-> 0],
                 [type |-> "array", length |-> 0] }

\* C24: researchPropertyValues takes a property for missing exactly when
\* its current value is null, "" or [] and its schema type is not button;
\* with nothing missing it returns null and Gemini is not called; when the
\* Gemini call fails it returns null and does not throw.
C24_MissingProperties ==
    output # None =>
        LET o == Get(output)
            missing == { k \in ResearchKeys :
                           /\ input.currentValues[k] \in { Some(v) : v \in EmptyValues }
                           /\ input.schema[k] # Some("button") }
        IN  /\ o.arg.missing = missing
            /\ missing = {} => (o.fn = "researchPropertyValues" /\ o.value = "null"
                                  /\ o.arg.geminiCalls = 0 /\ ~o.threw)
            /\ missing # {} => o.arg.geminiCalls = 1
            /\ (o.fn = "researchPropertyValues" /\ o.arg.gemini \notin {"none", "output"})
                  => (o.value = "null" /\ ~o.threw)

\* An empty button and a filled price: nothing is missing, Gemini not called.
C24_Witness ==
    /\ Called("researchPropertyValues")
    /\ input.schema = [Price |-> Some("number"), ActionButton |-> Some("button")]
    /\ input.currentValues["ActionButton"] = Some([type |-> "null", length |-> 0])
    /\ input.currentValues["Price"] = Some([type |-> "number", length |-> 0])
    /\ Get(output).value = "null"
    /\ Get(output).arg.geminiCalls = 0

\* C25: every matched executor is started exactly once, and all of them
\* before handleWebhookPayload waits for any: while the map runs none of the
\* started executors has settled and the next start is possible whatever
\* number is pending; at the await every matched executor has been started.
C25_AllStartedBeforeAwait ==
    /\ pc = "map" =>
          /\ settleOrder = <<>>
          /\ \A k \in 1..launched : executionResults[processorsToExecute[k]] = "pending"
          /\ launched < Len(processorsToExecute) => ENABLED StartExecutor
    /\ (pc = "await" \/ settleOrder # <<>> \/ IsSome(summary)) =>
          /\ launched = Len(processorsToExecute)
          /\ \A n \in ProcessorNames :
                executorCalls[n] = IF n \in Range(processorsToExecute) THEN 1 ELSE 0

\* Two executors started and both pending when the wait begins.
C25_Witness ==
    /\ pc = "await"
    /\ Len(processorsToExecute) = 2
    /\ launched = 2
    /\ settleOrder = <<>>
    /\ \A k \in 1..2 : executionResults[processorsToExecute[k]] = "pending"
    /\ \A k \in 1..2 : executorCalls[processorsToExecute[k]] = 1

\* The five checks of a request in the claimed order, and the response of
\* each when it fails.  A header that is the empty string counts as absent.
ClaimedChecks(request, secret) ==
    LET signature == request.signature
        present == IsSome(signature) /\ (Get(signature).prefixed \/ IsSome(Get(signature).hash))
    IN  << request.method = "POST",
           present,
           secret # "",
           present /\ Get(signature).hash = Some(Hmac(secret, request.body)),
           request.body.isJson >>
ClaimedResponses ==
    << <<405, "Method not allowed">>,
       <<401, "Missing X-Notion-Signature header">>,
       <<500, "Webhook secret not configured">>,
       <<401, "Invalid webhook signature">>,
       <<400, "Invalid JSON payload">> >>

ResponseJson == IF response = None THEN None ELSE Get(response).body.json

\* C27: for a validated payload handleIntegrationWebhook answers 200 with
\* success true and the summary whenever handleWebhookPayload returned,
\* whatever the summary counts, and 500 with success false and the error's
\* message only when handleWebhookPayload threw; a response exists exactly
\* once the handler is over, one for the call.
C27_DispatchResponse ==
    caller = "http" =>
        /\ (response # None) <=> (pc = "responded")
        /\ (pc = "responded" /\ IsSome(summary)) =>
              /\ thrown = None
              /\ Get(response).status = 200
              /\ Get(response).contentType = "application/json"
              /\ ResponseJson = Some([success |-> TRUE, result |-> summary, error |-> None])
        /\ (pc = "responded" /\ IsSome(thrown)) =>
              /\ summary = None
              /\ Get(response).status = 500
              /\ Get(response).contentType = "application/json"
              /\ ResponseJson = Some([success |-> FALSE, result |-> None, error |-> thrown])
        /\ (IsSome(ResponseJson) /\ Get(ResponseJson).success) => IsSome(summary)
        /\ (IsSome(ResponseJson) /\ ~Get(ResponseJson).success) => IsSome(thrown)
        /\ (pc = "responded" /\ RequestIsAuthentic) => IsSome(ResponseJson)

\* The one matched executor failed: 200 with a summary that counts nothing.
C27_Witness ==
    /\ caller = "http"
    /\ pc = "responded"
    /\ executorCalls["glensPlayground"] = 1
    /\ outcome["glensPlayground"] = "reject"
    /\ Get(summary).processorsExecuted = 0
    /\ Get(response).status = 200
    /\ Get(ResponseJson).success
    /\ Get(ResponseJson).result = summary

\* How many times the body of the original request has been read.
OriginalReads == Cardinality({ i \in 1..Len(bodyReads) : bodyReads[i] = "original" })

\* C28: handleVerificationRequest reads a clone only: when it has returned
\* null the original body is unread and validateWebhookRequest's read of it
\* does not fail; on the way to dispatch the original body is read exactly
\* once.
C28_BodyReadOnce ==
    caller = "http" =>
        /\ pc # "rejected"
        /\ OriginalReads <= 1
        /\ pc = "validation" => bodyReads = <<"clone">>
        /\ (pc = "handleWebhookPayload" \/ Dispatched) => bodyReads = <<"clone", "original">>

\* An event went through verification (null), validation and dispatch.
C28_Witness ==
    /\ caller = "http"
    /\ pc = "returned"
    /\ payload = GlensEvent
    /\ bodyReads = <<"clone", "original">>
    /\ executorCalls["glensPlayground"] = 1

\* Every launched executor eventually settles: again and again none is
\* pending (a settled executor stays settled, so in the end none is).
ExecutorsSettle == []<>(Pending = {})

\* An object payload for which no predicate of the registry throws.
PredicatesReturn ==
    /\ payload.kind = "object"
    /\ \A n \in Range(allProcessors) : ~PredicateThrows(n, payload)

\* C29: no predicate and no executor is called twice for one payload, and
\* for an object payload whose predicates return normally, if every
\* launched executor eventually settles then handleWebhookPayload
\* eventually returns its summary.
C29_DispatchTerminates ==
    /\ [](\A n \in ProcessorNames :
             isEnabledCalls[n] <= 1 /\ shouldExecuteCalls[n] <= 1 /\ executorCalls[n] <= 1)
    /\ ExecutorsSettle => (PredicatesReturn ~> (pc = "returned" /\ IsSome(summary)))

\* Of three entries one was rejected and two executors were started; both
\* settled, one by rejecting, and the summary is returned.
C29_Witness ==
    /\ caller = "direct"
    /\ pc = "returned"
    /\ allProcessors = <<"gatedProcessor", "disabledProcessor", "glensPlayground">>
    /\ PredicatesReturn
    /\ Len(settleOrder) = 2
    /\ outcome["gatedProcessor"] = "reject"
    /\ executorCalls = [Zero EXCEPT !["gatedProcessor"] = 1, !["glensPlayground"] = 1]
    /\ shouldExecuteCalls["glensPlayground"] = 1
    /\ IsSome(summary)

====
